---- MODULE Spec2Model ----
(***************************************************************************)
(* Verification model of the per-cell ionization / thermal convergence     *)
(* core (src/ionization.c) and of the parallel estimator exchange          *)
(* (src/source/para_update.c).                                             *)
(*                                                                         *)
(* The main specifications of the module:                                  *)
(*   SpecPar    - get_parallel_nrange / get_max_cells_per_rank             *)
(*   SpecGather - gather_extracted_spectrum on a group of ranks            *)
(*   Spec       - ion_abundances on one plasma cell                        *)
(***************************************************************************)
EXTENDS Integers, Sequences, FiniteSets, TLC

VARIABLES
  \* ---- process-wide MPI state (python.h globals used by para_update.c)
  rank_global,      \* this process's rank
  np_mpi_global,    \* number of ranks in the group
  \* ---- last call of get_parallel_nrange / get_max_cells_per_rank
  nrange,           \* [called, rank, ntotal, nproc, my_nmin, my_nmax, ndo]
  maxcells,         \* [called, n_total, ret]
  \* ---- gather_extracted_spectrum, one entry per rank of the group
  geo_ioniz_or_extract,  \* geo.ioniz_or_extract
  geo_nangles,      \* geo.nangles
  xxspec,           \* xxspec[r][k][j][i]: rank r, quantity k, spectrum j, bin i
  redhelper,        \* redhelper[r]: send buffer of rank r
  redhelper2,       \* redhelper2[r]: receive buffer of rank r
  gpc,              \* gpc[r]: position of rank r inside the routine
  ground,           \* ground[r]: exchanges rank r has returned from
  red_msgs,         \* red_msgs[r]: buffers rank r contributed, not yet reduced
  bc_msgs,          \* bc_msgs[r]: broadcast buffers not yet received by r
  entrylog,         \* entrylog[r]: xxspec[r] at each entry (history)
  exitlog,          \* exitlog[r]: xxspec[r] at each return (history)
  \* ---- ion_abundances on one plasma cell
  xplasma,          \* the cell record (PlasmaPtr xplasma)
  geo_auger_ionization,  \* geo.auger_ionization
  phys,             \* coefficients of the physics callables of this run
  pc,               \* position inside ion_abundances
  mode,             \* the mode argument of the current or last call
  ireturn,          \* ireturn of ion_abundances
  ncalls,           \* calls of ion_abundances that have returned
  trace,            \* callables and steps of the current or last call, in order
  entry,            \* the cell as the current or last call found it (history)
  loc,              \* locals of one_shot: gain, te_old, te_new, mode
  noffzero,         \* results of zbrent so far that lay tol off the zero
  \* ---- check_convergence on the array of plasma cells
  plasmamain,       \* plasmamain[1 .. NPLASMA]: the convergence fields
  chk,              \* locals of check_convergence and its position
  creport           \* the numbers check_convergence logged, and its return

parvars == <<rank_global, np_mpi_global, nrange, maxcells>>

gathervars == <<geo_ioniz_or_extract, geo_nangles, xxspec, redhelper,
                redhelper2, gpc, ground, red_msgs, bc_msgs, entrylog, exitlog>>

cellvars == <<xplasma, geo_auger_ionization, phys, pc, mode, ireturn, ncalls,
              trace, entry, loc, noffzero>>

checkvars == <<plasmamain, chk, creport>>

vars == <<parvars, gathervars, cellvars, checkvars>>

(***************************************************************************)
(* Bounds of the model.                                                    *)
(***************************************************************************)
MaxProc == 3
MaxTotal == 10
NRanks == 2
MaxRounds == 2
MaxSeed == 2
MaxAngles == 1
MSPEC == 1
NWAVE_MAX == 2
MaxCalls == 2
\* most results of zbrent, over the calls of one behaviour, that lie tol off
\* the zero of zero_emit
MaxOffZero == 2
\* largest NPLASMA, the number of plasma cells check_convergence scans
MaxPlasma == 2

(***************************************************************************)
(* para_update.c : work partition                                          *)
(***************************************************************************)

\* floor ((double) a / b) for b > 0
FloorDiv(a, b) == a \div b

\* ceil ((double) a / b) for b > 0
CeilDiv(a, b) == -((-a) \div b)

\* A variant of get_parallel_nrange whose upper limit in the first branch is
\* taken from the rank argument while the lower limit is not.
get_parallel_nrange_mixed(rank, ntotal, nproc) ==
  LET num_mpi_cells == FloorDiv(ntotal, nproc)
      num_mpi_extra == ntotal - (nproc * num_mpi_cells)
      my_nmin == IF rank < num_mpi_extra
                 THEN rank_global * (num_mpi_cells + 1)
                 ELSE num_mpi_extra * (num_mpi_cells + 1)
                        + (rank - num_mpi_extra) * num_mpi_cells
      my_nmax == IF rank < num_mpi_extra
                 THEN (rank + 1) * (num_mpi_cells + 1)
                 ELSE num_mpi_extra * (num_mpi_cells + 1)
                        + (rank - num_mpi_extra + 1) * num_mpi_cells
  IN  [my_nmin |-> my_nmin, my_nmax |-> my_nmax, ndo |-> my_nmax - my_nmin]

\* get_parallel_nrange: the two out-parameters and the returned count.
\* The first branch reads the process-wide rank_global, the second the
\* rank argument, exactly as the source does.
get_parallel_nrange(rank, ntotal, nproc) ==
  LET num_mpi_cells == FloorDiv(ntotal, nproc)
      num_mpi_extra == ntotal - (nproc * num_mpi_cells)
      my_nmin == IF rank < num_mpi_extra
                 THEN rank_global * (num_mpi_cells + 1)
                 ELSE num_mpi_extra * (num_mpi_cells + 1)
                        + (rank - num_mpi_extra) * num_mpi_cells
      my_nmax == IF rank < num_mpi_extra
                 THEN (rank_global + 1) * (num_mpi_cells + 1)
                 ELSE num_mpi_extra * (num_mpi_cells + 1)
                        + (rank - num_mpi_extra + 1) * num_mpi_cells
  IN  [my_nmin |-> my_nmin, my_nmax |-> my_nmax, ndo |-> my_nmax - my_nmin]

\* get_max_cells_per_rank: reads the process-wide np_mpi_global.
get_max_cells_per_rank(n_total) == CeilDiv(n_total, np_mpi_global)

NoRange == [called |-> FALSE, rank |-> 0, ntotal |-> 0, nproc |-> 1,
            my_nmin |-> 0, my_nmax |-> 0, ndo |-> 0]

NoMaxCells == [called |-> FALSE, n_total |-> 0, ret |-> 0]

(***************************************************************************)
(* Exact rational arithmetic <<numerator, denominator>>, denominator > 0,   *)
(* standing for the double arithmetic of the spectra.                      *)
(***************************************************************************)
Abs(x) == IF x < 0 THEN -x ELSE x

RECURSIVE Gcd(_, _)
Gcd(a, b) == IF b = 0 THEN a ELSE Gcd(b, a % b)

Rat(n, d) ==
  LET g == Gcd(Abs(n), d)
  IN  IF g = 0 THEN <<0, 1>> ELSE <<n \div g, d \div g>>

RAdd(x, y) == Rat(x[1] * y[2] + y[1] * x[2], x[2] * y[2])

\* x / p for an integer p > 0
RDivInt(x, p) == Rat(x[1], x[2] * p)

RZero == <<0, 1>>

(***************************************************************************)
(* para_update.c : gather_extracted_spectrum (the MPI_ON build)            *)
(***************************************************************************)
Ranks == 0..(np_mpi_global - 1)

Quant == {"f", "lf", "f_wind", "lf_wind"}

\* the position of each quantity in the communication buffer
QOffset(k) ==
  CASE k = "f" -> 0 [] k = "lf" -> 1 [] k = "f_wind" -> 2 [] k = "lf_wind" -> 3

\* number of spectra the array xxspec holds
NSpecAll == MSPEC + MaxAngles

Spectra == 0..(NSpecAll - 1)

Bins == 0..(NWAVE_MAX - 1)

\* nspec as gather_extracted_spectrum computes it
nspec ==
  IF geo_ioniz_or_extract = "CYCLE_EXTRACT" THEN MSPEC + geo_nangles ELSE MSPEC

size_of_commbuffer == 4 * nspec * NWAVE_MAX

\* index of quantity k, bin mpi_i, spectrum mpi_j in redhelper (packing loop)
PackIndex(k, mpi_i, mpi_j) ==
  mpi_i * nspec + mpi_j + (QOffset(k) * NWAVE_MAX * nspec)

\* A variant of the unpacking index with bins and spectra transposed.
UnpackIndex_transposed(k, mpi_i, mpi_j) ==
  mpi_j * NWAVE_MAX + mpi_i + (QOffset(k) * NWAVE_MAX * nspec)

\* index of quantity k, bin mpi_i, spectrum mpi_j in redhelper2 (unpacking loop)
UnpackIndex(k, mpi_i, mpi_j) ==
  mpi_i * nspec + mpi_j + (QOffset(k) * NWAVE_MAX * nspec)

\* A variant of the packing loop that stores the element undivided.
PackValue_undivided(x) == x

\* the value the packing loop stores for one element
PackValue(x) == RDivInt(x, np_mpi_global)

\* all (k, mpi_i, mpi_j) the loops visit, and the order of their statements
LoopTriples == {t \in Quant \X Bins \X (0..(nspec - 1)) : TRUE}

LoopOrder(t) == (t[2] * nspec + t[3]) * 4 + QOffset(t[1])

\* redhelper after calloc and the packing loop: a later statement overwrites
\* an earlier one that stored to the same index
PackBuffer(spec) ==
  [idx \in 0..(size_of_commbuffer - 1) |->
     LET writers == {t \in LoopTriples : PackIndex(t[1], t[2], t[3]) = idx}
     IN  IF writers = {} THEN RZero
         ELSE LET t == CHOOSE w \in writers :
                         \A u \in writers : LoopOrder(u) <= LoopOrder(w)
              IN  PackValue(spec[t[1]][t[3]][t[2]])]

\* xxspec of one rank after the unpacking loop read buffer buf
UnpackBuffer(spec, buf) ==
  [k \in Quant |->
     [j \in Spectra |->
        [i \in Bins |->
           IF j < nspec THEN buf[UnpackIndex(k, i, j)] ELSE spec[k][j][i]]]]

\* MPI_SUM over the contributions of all ranks, element by element
RECURSIVE SumBuffers(_, _, _)
SumBuffers(bufs, r, idx) ==
  IF r < 0 THEN RZero ELSE RAdd(SumBuffers(bufs, r - 1, idx), bufs[r][idx])

ReduceSum(bufs) ==
  [idx \in 0..(size_of_commbuffer - 1) |->
     SumBuffers(bufs, np_mpi_global - 1, idx)]

ZeroBuffer == [idx \in 0..(size_of_commbuffer - 1) |-> RZero]

\* the local spectra a rank accumulated before the exchange
LocalSpectrum(seed) ==
  [k \in Quant |->
     [j \in Spectra |->
        [i \in Bins |->
           Rat(seed * (1 + QOffset(k) * NSpecAll * NWAVE_MAX
                         + i * NSpecAll + j), 1)]]]

(***************************************************************************)
(* ionization.c : numeric representation                                   *)
(*                                                                         *)
(* The radiation temperature and the heating and cooling rates are whole   *)
(* units; spectral slopes are in tenths; frequencies are in units in which *)
(* the lowest band edge is 10000.  A double that is not finite is NaN.     *)
(***************************************************************************)
(***************************************************************************)
(* ionization.c : the doubles of the temperature iteration                 *)
(*                                                                         *)
(* t_e, t_e_old, dt_e, dt_e_old and gain, and the locals that one_shot,    *)
(* calc_te and convergence form from them, are doubles of the machine: a   *)
(* double is its sign s, its mantissa m of MantBits bits, the highest set, *)
(* and its exponent x; its value is s * m * 2^x, and zero has s = 0.  The  *)
(* mantissa is a whole number held as limbs in base LimbBase, the least    *)
(* significant first.  A sum, difference or product is the exact one       *)
(* rounded to the nearest double, a tie to the even mantissa, as the       *)
(* processor rounds.  Exponents stay far inside the range of the format.   *)
(***************************************************************************)
LimbBits == 15

LimbBase == 32768

MantBits == 53

\* 2^n for n in 0 .. 30
Pow2(n) == 2 ^ n

\* the number of bits of the limb v
RECURSIVE BitLen(_)
BitLen(v) ==
  IF v >= 16 THEN 4 + BitLen(v \div 16)
  ELSE IF v >= 4 THEN (IF v >= 8 THEN 4 ELSE 3)
  ELSE IF v >= 2 THEN 2 ELSE v

\* the limbs of a + b + c, c the carry
RECURSIVE MagAdd(_, _, _)
MagAdd(a, b, c) ==
  IF b = <<>>
  THEN IF c = 0 THEN a
       ELSE IF a = <<>> THEN <<c>>
       ELSE LET t == Head(a) + c
            IN  <<t % LimbBase>> \o MagAdd(Tail(a), b, t \div LimbBase)
  ELSE IF a = <<>> THEN MagAdd(b, a, c)
  ELSE LET t == Head(a) + Head(b) + c
       IN  <<t % LimbBase>> \o MagAdd(Tail(a), Tail(b), t \div LimbBase)

\* the limbs of a - b - c for a >= b + c, c the borrow
RECURSIVE MagSub(_, _, _)
MagSub(a, b, c) ==
  IF a = <<>> THEN <<>>
  ELSE LET t == Head(a) - (IF b = <<>> THEN 0 ELSE Head(b)) - c
       IN  <<IF t < 0 THEN t + LimbBase ELSE t>>
             \o MagSub(Tail(a), IF b = <<>> THEN b ELSE Tail(b),
                       IF t < 0 THEN 1 ELSE 0)

\* the limbs of a * k + b + c for one limb k
RECURSIVE MagScaleAdd(_, _, _, _)
MagScaleAdd(a, k, b, c) ==
  IF a = <<>> THEN MagAdd(b, <<>>, c)
  ELSE IF b = <<>>
  THEN LET t == Head(a) * k + c
       IN  <<t % LimbBase>> \o MagScaleAdd(Tail(a), k, b, t \div LimbBase)
  ELSE LET t == Head(a) * k + Head(b) + c
       IN  <<t % LimbBase>>
             \o MagScaleAdd(Tail(a), k, Tail(b), t \div LimbBase)

\* the limbs of a * k + c for one limb k
MagScale(a, k, c) == MagScaleAdd(a, k, <<>>, c)

\* limbs without the zeros at the high end
RECURSIVE MagTrim(_)
MagTrim(a) ==
  IF a = <<>> THEN <<>>
  ELSE IF a[Len(a)] # 0 THEN a
  ELSE MagTrim(SubSeq(a, 1, Len(a) - 1))

\* the limbs of a * b
RECURSIVE MagMul(_, _)
MagMul(a, b) ==
  IF b = <<>> THEN <<>>
  ELSE MagTrim(MagScaleAdd(a, Head(b), <<0>> \o MagMul(a, Tail(b)), 0))

\* quotient and remainder of a by one limb k > 0
RECURSIVE MagDivide(_, _)
MagDivide(a, k) ==
  IF a = <<>> THEN [q |-> <<>>, r |-> 0]
  ELSE LET hi == MagDivide(Tail(a), k)
           t == hi.r * LimbBase + Head(a)
       IN  [q |-> <<t \div k>> \o hi.q, r |-> t % k]

\* -1, 0 or 1 as a is below, equal to or above b, both of length i and
\* compared from limb i down
RECURSIVE MagCompareFrom(_, _, _)
MagCompareFrom(a, b, i) ==
  IF i = 0 THEN 0
  ELSE IF a[i] < b[i] THEN -1
  ELSE IF a[i] > b[i] THEN 1
  ELSE MagCompareFrom(a, b, i - 1)

\* the same for limbs without a 0 at the high end
MagCompare(a, b) ==
  IF Len(a) < Len(b) THEN -1
  ELSE IF Len(a) > Len(b) THEN 1
  ELSE MagCompareFrom(a, b, Len(a))

\* the number of bits of a, and whether a is odd
MagBits(a) ==
  IF a = <<>> THEN 0 ELSE (Len(a) - 1) * LimbBits + BitLen(a[Len(a)])

MagOdd(a) == a # <<>> /\ a[1] % 2 = 1

\* a without its lowest q limbs, and the whole part of b / r for r a power
\* of 2 below LimbBase
MagDrop(a, q) == IF q >= Len(a) THEN <<>> ELSE SubSeq(a, q + 1, Len(a))

MagShrBits(b, r) ==
  MagTrim(<<>> \o [i \in 1..Len(b) |->
            (b[i] \div r)
              + ((IF i < Len(b) THEN b[i + 1] ELSE 0) % r)
                  * (LimbBase \div r)])

\* a * 2^n and the whole part of a / 2^n
MagShl(a, n) ==
  IF a = <<>> THEN <<>>
  ELSE [i \in 1..(n \div LimbBits) |-> 0]
         \o MagScale(a, Pow2(n % LimbBits), 0)

MagShr(a, n) == MagShrBits(MagDrop(a, n \div LimbBits), Pow2(n % LimbBits))

\* whether the lowest n bits of a are all 0
MagLowZero(a, n) ==
  /\ \A i \in 1..(n \div LimbBits) : i > Len(a) \/ a[i] = 0
  /\ n \div LimbBits >= Len(a)
       \/ a[(n \div LimbBits) + 1] % Pow2(n % LimbBits) = 0

\* the limbs of the whole number n >= 0, and the whole number of limbs
RECURSIVE MagOfInt(_)
MagOfInt(n) ==
  IF n = 0 THEN <<>> ELSE <<n % LimbBase>> \o MagOfInt(n \div LimbBase)

RECURSIVE MagToInt(_)
MagToInt(a) ==
  IF a = <<>> THEN 0 ELSE Head(a) + LimbBase * MagToInt(Tail(a))

\* -1, 0 or 1 as a 2^ax is below, equal to or above b 2^bx, for a, b > 0
\* that reach up to the bits la and lb
ScaledCompareBits(a, ax, b, bx, la, lb) ==
  IF la < lb THEN -1
  ELSE IF la > lb THEN 1
  ELSE IF ax >= bx THEN MagCompare(MagShl(a, ax - bx), b)
  ELSE MagCompare(a, MagShl(b, bx - ax))

ScaledCompare(a, ax, b, bx) ==
  ScaledCompareBits(a, ax, b, bx, MagBits(a) + ax, MagBits(b) + bx)

DZero == [s |-> 0, m |-> <<>>, x |-> 0]

\* the double s * q * 2^x for q of MantBits bits, or of one bit more when
\* rounding up has carried
DRoundCarry(s, q, x) ==
  IF MagBits(q) > MantBits
  THEN [s |-> s, m |-> MagShr(q, 1), x |-> x + 1]
  ELSE [s |-> s, m |-> q, x |-> x]

\* the double nearest to s * (h / 2) * 2^x for h of MantBits + 1 bits, exact
\* telling that h is the whole of the number: up when the last bit of h is
\* set and either more follows or the bit before it is set (a tie goes to
\* the even mantissa)
DRoundHalf(s, h, x, exact) ==
  IF MagOdd(h) /\ (~exact \/ (h[1] \div 2) % 2 = 1)
  THEN DRoundCarry(s, MagAdd(MagShr(h, 1), <<1>>, 0), x)
  ELSE [s |-> s, m |-> MagShr(h, 1), x |-> x]

\* the double nearest to s * a * 2^x for a of n bits
DRoundBits(s, a, x, n) ==
  IF n <= MantBits
  THEN [s |-> s, m |-> MagShl(a, MantBits - n), x |-> x - (MantBits - n)]
  ELSE DRoundHalf(s, MagShr(a, n - MantBits - 1), x + (n - MantBits),
                  MagLowZero(a, n - MantBits - 1))

\* the double nearest to s * a * 2^x, of two equally near the one whose
\* mantissa is even
DRound(s, a, x) ==
  IF a = <<>> \/ s = 0 THEN DZero ELSE DRoundBits(s, a, x, MagBits(a))

\* the double of a whole number
DInt(n) ==
  IF n < 0 THEN DRound(-1, MagOfInt(-n), 0) ELSE DRound(1, MagOfInt(n), 0)

\* the double the compiler makes of the decimal n / 10^p, p in 0 .. 4, as
\* 0.7 (7, 1) or 0.75 (75, 2): the quotient to 70 bits after the point,
\* with one more bit that tells whether anything was left
RECURSIVE Pow10(_)
Pow10(p) == IF p = 0 THEN 1 ELSE 10 * Pow10(p - 1)

DRatioOf(s, d) ==
  DRound(s, MagAdd(MagScale(MagTrim(d.q), 2, 0),
                   IF d.r = 0 THEN <<>> ELSE <<1>>, 0), -71)

DRatio(n, p) ==
  DRatioOf(IF n < 0 THEN -1 ELSE 1,
           MagDivide(MagShl(MagOfInt(IF n < 0 THEN -n ELSE n), 70),
                     Pow10(p)))

\* the sign of x: -1, 0 or 1
DSign(x) == x.s

DNeg(x) == [x EXCEPT !.s = -x.s]

\* fabs (x)
DAbs(x) == [x EXCEPT !.s = IF x.s = 0 THEN 0 ELSE 1]

\* -1, 0 or 1 as x < y, x == y or x > y
DCompare(x, y) ==
  IF x.s # y.s THEN (IF x.s < y.s THEN -1 ELSE 1)
  ELSE IF x.s = 0 THEN 0
  ELSE IF x.x # y.x THEN (IF x.x < y.x THEN -x.s ELSE x.s)
  ELSE x.s * MagCompare(x.m, y.m)

\* x < y and x <= y
DLess(x, y) == DCompare(x, y) < 0

DLeq(x, y) == DCompare(x, y) <= 0

DMin(x, y) == IF DLess(y, x) THEN y ELSE x

DMax(x, y) == IF DLess(x, y) THEN y ELSE x

\* sa * a * 2^x + sb * b * 2^x rounded, c telling how a compares with b when
\* the signs differ
DAddCompared(sa, a, sb, b, x, c) ==
  DRound(IF c >= 0 THEN sa ELSE sb,
         IF sa = sb THEN MagAdd(a, b, 0)
         ELSE IF c >= 0 THEN MagTrim(MagSub(a, b, 0))
         ELSE MagTrim(MagSub(b, a, 0)),
         x)

DAddAligned(sa, a, sb, b, x) ==
  DAddCompared(sa, a, sb, b, x, IF sa = sb THEN 1 ELSE MagCompare(a, b))

\* hi + lo for hi.x >= lo.x, neither zero: lo cannot move the sum once it
\* is below an eighth of the last place of hi
DAddOrdered(hi, lo) ==
  IF hi.x - lo.x > MantBits + 2 THEN hi
  ELSE DAddAligned(hi.s, MagShl(hi.m, hi.x - lo.x), lo.s, lo.m, lo.x)

\* x + y
DAdd(x, y) ==
  IF x.s = 0 THEN y
  ELSE IF y.s = 0 THEN x
  ELSE IF x.x >= y.x THEN DAddOrdered(x, y)
  ELSE DAddOrdered(y, x)

\* x - y
DSub(x, y) == DAdd(x, DNeg(y))

\* x * y
DMul(x, y) ==
  IF x.s = 0 \/ y.s = 0 THEN DZero
  ELSE DRound(x.s * y.s, MagMul(x.m, y.m), x.x + y.x)

\* the whole number next below x or equal to it
DFloor(x) ==
  IF x.s = 0 THEN 0
  ELSE IF x.x >= 0 THEN x.s * MagToInt(MagShl(x.m, x.x))
  ELSE IF x.s > 0 THEN MagToInt(MagShr(x.m, -x.x))
  ELSE -MagToInt(MagShr(x.m, -x.x))
         - (IF MagLowZero(x.m, -x.x) THEN 0 ELSE 1)

\* fabs (a) / b > e for a >= 0 and e > 0, the quotient rounded as the
\* processor rounds it: a zero denominator gives +inf (greater) unless a is
\* zero too (NaN, never greater), a negative denominator a quotient that is
\* not positive; otherwise the rounded quotient is above e when a / b is
\* above the number half way from e to the next double, or is that number
\* and the mantissa of e is odd
RatioAbove(c, odd) == c > 0 \/ (c = 0 /\ odd)

RatioExceeds(a, b, e) ==
  IF DSign(b) = 0 THEN DSign(a) > 0
  ELSE IF DSign(b) < 0 \/ DSign(a) = 0 THEN FALSE
  ELSE RatioAbove(ScaledCompare(a.m, a.x,
                                MagMul(b.m, MagAdd(MagScale(e.m, 2, 0),
                                                   <<1>>, 0)),
                                b.x + e.x - 1),
                  MagOdd(e.m))

\* the gain limits 0.1 and 0.8 of convergence()
GainMin == DRatio(1, 1)

GainMax == DRatio(8, 1)

\* the factors 0.7 and 1.1 of convergence()
GainDown == DRatio(7, 1)

GainUp == DRatio(11, 1)

\* the factors 0.7 and 1.3 that one_shot puts on te_old for calc_te, and
\* the 1 of its damped update
SolveLow == DRatio(7, 1)

SolveHigh == DRatio(13, 1)

DOne == DInt(1)

\* epsilon = 0.05 of convergence()
Epsilon == DRatio(5, 2)

\* the limits -3.0 and 3.0 on the fitted slope, in tenths
AlphaClamp == 30

\* zbrent tolerance of calc_te, in kelvin
TeTol == 50

\* the smallest radiation temperature one_shot accepts is above this
TrFloor == 10

\* VERY_BIG of the program, in the units of ne used here
VERY_BIG == 1000000

Num(v) == [nan |-> FALSE, v |-> v]

NaN == [nan |-> TRUE, v |-> 0]

\* x * y > 0.0 on doubles
ProdPositive(x, y) ==
  /\ ~x.nan /\ ~y.nan
  /\ (x.v > 0 /\ y.v > 0) \/ (x.v < 0 /\ y.v < 0)

\* x * y < 0.0 on finite doubles
ProdNegative(x, y) == (x < 0 /\ y > 0) \/ (x > 0 /\ y < 0)

\* the quotient fabs (a) / b as stored in converge_t_r, converge_t_e,
\* converge_hc, held as the two numbers it is taken of
Quotient(a, b) == <<a, b>>

(***************************************************************************)
(* Frequency bands (xfreq, xband) and the estimators of one cell           *)
(***************************************************************************)
\* number of bands nxfreq
nxfreq == 2

BandSet == 0..(nxfreq - 1)

\* band edges xfreq[0..nxfreq]
xfreq == [b \in 0..nxfreq |-> IF b = 0 THEN 10000 ELSE IF b = 1 THEN 20000 ELSE 40000]

\* xband.f1[0] and xband.f2[xband.nbands - 1]
xband_f1_first == xfreq[0]

xband_f2_last == xfreq[nxfreq]

\* largest slope, in tenths, for which pow() of the band edges is tabulated;
\* beyond it the value is taken as not finite
AlphaTableMax == 101

\* ((alpha+1)/(alpha+2)) * ((numax^(alpha+2) - numin^(alpha+2))
\*                           / (numax^(alpha+1) - numin^(alpha+1)))
\* evaluated in double arithmetic by the source expression for alpha =
\* -10.1, -10.0, ..., 10.1 and rounded to a whole frequency unit; 0 marks a
\* value that is not finite (alpha = -1 and alpha = -2)
MeanFreqBand0 ==
  <<11214, 11228, 11242, 11257, 11271, 11287, 11302, 11318, 11334, 11350,
    11367, 11384, 11401, 11419, 11437, 11455, 11474, 11494, 11513, 11533,
    11554, 11575, 11596, 11618, 11640, 11663, 11686, 11710, 11734, 11759,
    11784, 11810, 11836, 11862, 11890, 11918, 11946, 11975, 12005, 12035,
    12065, 12097, 12129, 12161, 12194, 12228, 12263, 12298, 12333, 12370,
    12407, 12444, 12483, 12522, 12561, 12602, 12643, 12684, 12726, 12769,
    12813, 12857, 12902, 12947, 12994, 13040, 13088, 13136, 13184, 13233,
    13283, 13333, 13384, 13435, 13487, 13540, 13592, 13646, 13699, 13754,
    13808, 0, 13918, 13974, 14030, 14086, 14142, 14199, 14256, 14313,
    14370, 0, 14484, 14542, 14599, 14657, 14714, 14771, 14829, 14886,
    14943, 15000, 15057, 15113, 15170, 15226, 15282, 15337, 15392, 15447,
    15501, 15556, 15609, 15662, 15715, 15768, 15820, 15871, 15922, 15972,
    16022, 16071, 16120, 16168, 16216, 16263, 16310, 16356, 16401, 16446,
    16490, 16533, 16576, 16619, 16660, 16701, 16742, 16782, 16821, 16860,
    16898, 16935, 16972, 17009, 17044, 17080, 17114, 17148, 17182, 17215,
    17247, 17279, 17310, 17341, 17371, 17401, 17430, 17459, 17487, 17515,
    17542, 17569, 17595, 17621, 17647, 17672, 17696, 17720, 17744, 17767,
    17790, 17813, 17835, 17856, 17878, 17899, 17920, 17940, 17960, 17979,
    17999, 18018, 18036, 18055, 18073, 18090, 18108, 18125, 18142, 18158,
    18175, 18191, 18206, 18222, 18237, 18252, 18267, 18282, 18296, 18310,
    18324, 18338, 18351>>

MeanFreqBand1 ==
  <<22428, 22456, 22484, 22513, 22543, 22573, 22604, 22635, 22667, 22700,
    22733, 22768, 22802, 22838, 22874, 22911, 22949, 22987, 23027, 23067,
    23108, 23150, 23192, 23236, 23280, 23326, 23372, 23420, 23468, 23517,
    23568, 23619, 23671, 23725, 23780, 23835, 23892, 23950, 24009, 24069,
    24131, 24194, 24257, 24323, 24389, 24456, 24525, 24595, 24667, 24740,
    24814, 24889, 24966, 25043, 25123, 25203, 25285, 25368, 25453, 25539,
    25626, 25714, 25804, 25895, 25987, 26081, 26175, 26271, 26368, 26467,
    26566, 26667, 26768, 26871, 26975, 27079, 27185, 27291, 27399, 27507,
    27616, 0, 27836, 27947, 28059, 28171, 28284, 28398, 28511, 28625,
    28739, 0, 28969, 29083, 29198, 29313, 29428, 29543, 29658, 29772,
    29886, 30000, 30114, 30227, 30339, 30451, 30563, 30674, 30784, 30894,
    31003, 31111, 31218, 31325, 31431, 31535, 31639, 31742, 31844, 31944,
    32044, 32143, 32240, 32337, 32432, 32526, 32619, 32711, 32802, 32891,
    32980, 33067, 33153, 33237, 33321, 33403, 33484, 33564, 33642, 33720,
    33796, 33871, 33945, 34017, 34089, 34159, 34229, 34297, 34364, 34429,
    34494, 34558, 34620, 34682, 34742, 34802, 34860, 34918, 34974, 35030,
    35084, 35138, 35190, 35242, 35293, 35343, 35392, 35440, 35488, 35534,
    35580, 35625, 35670, 35713, 35756, 35798, 35839, 35880, 35920, 35959,
    35997, 36035, 36073, 36109, 36145, 36181, 36216, 36250, 36284, 36317,
    36349, 36381, 36413, 36444, 36475, 36505, 36534, 36564, 36592, 36620,
    36648, 36676, 36703>>

MeanFreqCoarse ==
  <<11234, 11250, 11266, 11282, 11299, 11316, 11333, 11351, 11370, 11388,
    11408, 11428, 11449, 11470, 11492, 11514, 11537, 11561, 11586, 11611,
    11637, 11665, 11692, 11721, 11751, 11782, 11814, 11847, 11881, 11916,
    11953, 11991, 12031, 12072, 12114, 12158, 12204, 12252, 12302, 12353,
    12407, 12463, 12522, 12583, 12646, 12712, 12782, 12854, 12929, 13008,
    13090, 13176, 13266, 13360, 13459, 13562, 13669, 13782, 13899, 14023,
    14151, 14286, 14426, 14573, 14727, 14887, 15054, 15228, 15410, 15599,
    15795, 16000, 16212, 16433, 16662, 16898, 17143, 17396, 17656, 17925,
    18201, 0, 18774, 19072, 19375, 19685, 20000, 20320, 20645, 20974,
    21306, 0, 21977, 22316, 22655, 22994, 23333, 23671, 24007, 24341,
    24672, 25000, 25324, 25643, 25958, 26267, 26571, 26870, 27162, 27448,
    27727, 28000, 28266, 28526, 28778, 29024, 29263, 29495, 29720, 29939,
    30151, 30357, 30557, 30750, 30937, 31119, 31295, 31465, 31630, 31790,
    31944, 32094, 32239, 32380, 32516, 32648, 32775, 32899, 33019, 33135,
    33248, 33358, 33464, 33567, 33667, 33764, 33859, 33950, 34039, 34126,
    34210, 34292, 34372, 34449, 34525, 34598, 34670, 34740, 34808, 34874,
    34939, 35002, 35063, 35123, 35182, 35239, 35295, 35350, 35403, 35455,
    35506, 35556, 35605, 35652, 35699, 35745, 35790, 35834, 35876, 35919,
    35960, 36000, 36040, 36079, 36117, 36154, 36191, 36226, 36262, 36296,
    36330, 36364, 36396, 36429, 36460, 36491, 36522, 36552, 36581, 36610,
    36639, 36667, 36694>>

\* the weight sim_w gives a band of unit intensity, times 1000, for the
\* slopes -WeightTableMax .. WeightTableMax in tenths: band with
\* numax = 2 numin, then band with numax = 4 numin; 0 where it is 0/0
WeightTableMax == 40

NormRatio2 ==
  <<3429, 3349, 3269, 3191, 3114, 3037, 2961, 2886, 2812, 2739,
    2667, 2595, 2525, 2456, 2388, 2320, 2254, 2189, 2125, 2062,
    2000, 1939, 1879, 1821, 1763, 1707, 1652, 1598, 1545, 1493,
    0, 1393, 1345, 1298, 1252, 1207, 1163, 1121, 1079, 1039,
    1000, 962, 925, 889, 854, 820, 788, 756, 725, 695,
    667, 639, 612, 586, 561, 537, 514, 491, 469, 449,
    429, 409, 391, 373, 356, 339, 324, 308, 294, 280,
    267, 254, 242, 230, 219, 208, 198, 188, 179, 170,
    161>>

NormRatio4 ==
  <<3048, 2953, 2859, 2765, 2673, 2581, 2489, 2399, 2309, 2221,
    2133, 2047, 1962, 1878, 1795, 1714, 1635, 1557, 1481, 1406,
    1333, 1263, 1194, 1127, 1062, 1000, 940, 882, 826, 773,
    0, 673, 626, 582, 540, 500, 462, 427, 394, 363,
    333, 306, 281, 257, 235, 214, 195, 178, 162, 147,
    133, 121, 109, 99, 89, 81, 73, 65, 59, 53,
    48, 43, 38, 34, 31, 28, 25, 22, 20, 18,
    16, 14, 12, 11, 10, 9, 8, 7, 6, 6,
    5>>

MeanFreqTable(numin, numax) ==
  IF numin = xfreq[0] /\ numax = xfreq[1] THEN MeanFreqBand0
  ELSE IF numin = xfreq[1] /\ numax = xfreq[2] THEN MeanFreqBand1
  ELSE MeanFreqCoarse

\* sim_alpha_func (alpha) with the globals sim_numin, sim_numax, sim_meanfreq
sim_alpha_func(sim_numin, sim_numax, sim_meanfreq, alpha) ==
  IF alpha < -AlphaTableMax \/ alpha > AlphaTableMax THEN NaN
  ELSE LET m == MeanFreqTable(sim_numin, sim_numax)[alpha + AlphaTableMax + 1]
       IN  IF m = 0 THEN NaN ELSE Num(m - sim_meanfreq)

\* sim_w (en1, v, dt, alpha, numin, numax): the weight of the power law of
\* slope alpha whose band-integrated intensity is j, in units of
\* numin^(-alpha-1) / 1000; not finite where the normalisation is 0/0 or
\* the intensity is not finite
sim_w(j, alpha, numin, numax) ==
  LET n == IF numax = 2 * numin THEN NormRatio2[alpha + WeightTableMax + 1]
           ELSE NormRatio4[alpha + WeightTableMax + 1]
  IN  IF alpha < -WeightTableMax \/ alpha > WeightTableMax THEN NaN
      ELSE IF n = 0 \/ j.nan THEN NaN ELSE Num(j.v * n)

\* sane_check (x): true when x is not finite
sane_check(x) == x.nan

(***************************************************************************)
(* Physics callables consumed by ionization.c.  Each is a function of the  *)
(* trial temperature with coefficients fixed per run (phys), tabulated by  *)
(* whole kelvin: at t it gives the entry of the kelvin t lies in.  The     *)
(* callables reach the cell through the wind cell they are given, and src/ *)
(* does not tell whether total_emission leaves the radiative luminosity it *)
(* computed in lum_rad: a run either has a total_emission that stores it   *)
(* (stores_lum_rad) or one that writes no field of the cell.               *)
(***************************************************************************)
PhysSet ==
  { [cool |-> 1, adia |-> a, dr |-> a, comp |-> a, mbb |-> a, mbf |-> a,
     stores_lum_rad |-> s] : a \in {0, 1}, s \in BOOLEAN }

macro_bb_heating(xp, k) == phys.mbb * (k \div 10)

macro_bf_heating(xp, k) == phys.mbf * (k \div 20)

adiabatic_cooling(k) == phys.adia * (k \div 4)

total_dr(k) == phys.dr * (k \div 10)

total_comp(k) == phys.comp * (k \div 20)

\* the value total_emission (one, f1, f2) returns at the cell's current t_e
total_emission(xp) == phys.cool * DFloor(xp.t_e)

(***************************************************************************)
(* ionization.c : zero_emit and calc_te                                    *)
(***************************************************************************)
\* heat_tot, heat_lines and heat_lines_macro with the line heating lines put
\* on top of the old one
HeatLinesMacro_adds_only(xp, lines) ==
  [xp EXCEPT !.heat_tot = xp.heat_tot + lines,
             !.heat_lines = xp.heat_lines + lines,
             !.heat_lines_macro = lines]

\* heat_tot, heat_photo and heat_photo_macro with the photo heating photo
\* put on top of the old one
HeatPhotoMacro_adds_only(xp, photo) ==
  [xp EXCEPT !.heat_tot = xp.heat_tot + photo,
             !.heat_photo = xp.heat_photo + photo,
             !.heat_photo_macro = photo]

\* a correction that adds the new macro-atom heating without taking the
\* old one out
MacroHeating_adds_only(xp, t) ==
  HeatPhotoMacro_adds_only(
    HeatLinesMacro_adds_only(xp, macro_bb_heating(xp, DFloor(t))),
    macro_bf_heating(
      HeatLinesMacro_adds_only(xp, macro_bb_heating(xp, DFloor(t))),
      DFloor(t)))

\* heat_tot, heat_lines and heat_lines_macro with the old macro-atom line
\* heating taken out and the new one, lines, put in
HeatLinesMacro(xp, lines) ==
  [xp EXCEPT !.heat_tot = xp.heat_tot - xp.heat_lines_macro + lines,
             !.heat_lines = xp.heat_lines - xp.heat_lines_macro + lines,
             !.heat_lines_macro = lines]

\* heat_tot, heat_photo and heat_photo_macro with the old macro-atom photo
\* heating taken out and the new one, photo, put in
HeatPhotoMacro(xp, photo) ==
  [xp EXCEPT !.heat_tot = xp.heat_tot - xp.heat_photo_macro + photo,
             !.heat_photo = xp.heat_photo - xp.heat_photo_macro + photo,
             !.heat_photo_macro = photo]

\* the macro-atom block shared by zero_emit and calc_te
MacroHeating(xp, t) ==
  HeatPhotoMacro(
    HeatLinesMacro(xp, macro_bb_heating(xp, DFloor(t))),
    macro_bf_heating(HeatLinesMacro(xp, macro_bb_heating(xp, DFloor(t))),
                     DFloor(t)))

\* the difference zero_emit returns and the cell it leaves: total_emission
\* is called last, and the cell holds its value in lum_rad when it stores it
HeatingLessCooling(xp) ==
  [cell |-> IF phys.stores_lum_rad
            THEN [xp EXCEPT !.lum_rad = total_emission(xp)] ELSE xp,
   difference |-> xp.heat_tot - xp.lum_adiabatic - xp.lum_dr
                    - xp.lum_comp - total_emission(xp)]

\* zero_emit (t) acting on the cell xxxplasma points to: the cell it leaves
\* and the difference it returns
zero_emit(xxxplasma, t) ==
  HeatingLessCooling(
    [MacroHeating([xxxplasma EXCEPT !.t_e = t], t) EXCEPT
       !.lum_adiabatic = adiabatic_cooling(DFloor(t)),
       !.lum_dr = total_dr(DFloor(t)),
       !.lum_comp = total_comp(DFloor(t))])

\* sign of a finite double
Sign(x) == IF x > 0 THEN 1 ELSE IF x < 0 THEN -1 ELSE 0

RECURSIVE ZeroCrossing(_, _, _, _)

\* one bisection on [lo, hi] at mid, zm the difference there
ZeroCrossingStep(xp, lo, hi, slo, mid, zm) ==
  IF zm = 0 THEN mid
  ELSE IF Sign(zm) = slo THEN ZeroCrossing(xp, mid, hi, slo)
  ELSE ZeroCrossing(xp, lo, mid, slo)

\* the whole temperature in [lo, hi] next to the zero of zero_emit, given
\* values of opposite sign at the whole temperatures lo and hi, slo the
\* sign at lo
ZeroCrossing(xp, lo, hi, slo) ==
  IF hi - lo <= 1
  THEN IF Abs(zero_emit(xp, DInt(lo)).difference)
            <= Abs(zero_emit(xp, DInt(hi)).difference)
       THEN lo ELSE hi
  ELSE ZeroCrossingStep(xp, lo, hi, slo, (lo + hi) \div 2,
                        zero_emit(xp, DInt((lo + hi) \div 2)).difference)

Min(a, b) == IF a < b THEN a ELSE b

Max(a, b) == IF a > b THEN a ELSE b

\* the results zbrent may give when the zero is at z: z, or the point tol
\* above it that is still inside the bracket, with z evaluated last
ZbrentResults(z, x2, tol) ==
  { [root |-> z, last |-> z],
    [root |-> DMin(DAdd(z, DInt(tol)), x2), last |-> z] }

\* zbrent (zero_emit, x1, x2, tol) on a bracket that straddles zero: the
\* root it may return (within tol of the zero, inside the bracket) and the
\* temperature of its last evaluation of zero_emit, which is the root or
\* the other end of the bracket it has narrowed to tol
zbrent_zero_emit(xp, x1, x2, tol) ==
  ZbrentResults(DMax(DInt(ZeroCrossing(xp, DFloor(x1), DFloor(x2),
                                       Sign(zero_emit(xp, x1).difference))),
                     x1),
                x2, tol)

\* a choice of the end where the difference is larger
UnbracketedEnd_worse(z1, z2, tmin, tmax) ==
  IF Abs(z1) > Abs(z2) THEN tmin ELSE tmax

\* the interval not bracketed: the end where the difference is smaller
UnbracketedEnd(z1, z2, tmin, tmax) ==
  IF Abs(z1) < Abs(z2) THEN tmin ELSE tmax

\* the cells calc_te may hold once it has its temperature: xp is the cell
\* after zero_emit (tmax), z1 and z2 the differences at tmin and tmax
CalcTeFound(xp, z1, z2, tmin, tmax) ==
  IF ProdNegative(z1, z2)
  THEN { [c |-> [zero_emit(xp, r.last).cell EXCEPT !.t_e = r.root],
          off |-> r.root # r.last] :
           r \in zbrent_zero_emit(xp, tmin, tmax, TeTol) }
  ELSE { [c |-> [xp EXCEPT !.t_e = UnbracketedEnd(z1, z2, tmin, tmax)],
          off |-> FALSE] }

\* calc_te after zero_emit (tmin) gave z1 and zero_emit (tmax) gave e2:
\* the temperature it finds, the macro-atom heating recomputed there, and
\* the return
CalcTeBracket(z1, e2, tmin, tmax) ==
  { [cell |-> MacroHeating(f.c, f.c.t_e), ret |-> f.c.t_e,
     solved |-> ProdNegative(z1, e2.difference), off |-> f.off] :
      f \in CalcTeFound(e2.cell, z1, e2.difference, tmin, tmax) }

\* calc_te (xplasma, tmin, tmax): every cell it may leave, with the value
\* returned; solved tells that zbrent was called, off that its result lay
\* tol off the zero
calc_te(xp, tmin, tmax) ==
  CalcTeBracket(
    zero_emit([xp EXCEPT !.t_e = tmin], tmin).difference,
    zero_emit([zero_emit([xp EXCEPT !.t_e = tmin], tmin).cell
                 EXCEPT !.t_e = tmax], tmax),
    tmin, tmax)

(***************************************************************************)
(* ionization.c : convergence                                              *)
(***************************************************************************)
\* a check that counts a residual equal to epsilon
ResidualCheck_inclusive(num, den) ==
  IF RatioExceeds(num, den, Epsilon) \/ DMul(DInt(20), num) = den
  THEN 1 ELSE 0

\* one of the three checks: 1 when the residual num / den exceeds epsilon
ResidualCheck(num, den) == IF RatioExceeds(num, den, Epsilon) THEN 1 ELSE 0

\* an oscillation test on the change of sign alone
Oscillating_sign_only(xp) ==
  IF ProdNegative(DSign(xp.dt_e_old), DSign(xp.dt_e)) THEN 1 ELSE 0

\* the oscillation test on dt_e_old and dt_e
Oscillating(xp) ==
  IF /\ ProdNegative(DSign(xp.dt_e_old), DSign(xp.dt_e))
     /\ DLess(DAbs(xp.dt_e_old), DAbs(xp.dt_e))
  THEN 1 ELSE 0

\* a gain that is raised whatever the oscillation test found
NextGain_raise_only(gain, converging) == DMin(DMul(gain, GainUp), GainMax)

\* a gain that is multiplied and not limited
NextGain_unlimited(gain, converging) ==
  IF converging = 1 THEN DMul(gain, GainDown) ELSE DMul(gain, GainUp)

\* the gain after gain *= 0.7 or gain *= 1.1 and its limit
NextGain(gain, converging) ==
  IF converging = 1 THEN DMax(DMul(gain, GainDown), GainMin)
  ELSE DMin(DMul(gain, GainUp), GainMax)

\* the fields convergence writes, from the three checks and the
\* oscillation test
ConvergenceResult(xp, q_tr, q_te, q_hc, trcheck, techeck, hccheck, converging) ==
  [cell |-> [xp EXCEPT
     !.converge_t_r = q_tr,
     !.converge_t_e = q_te,
     !.converge_hc = q_hc,
     !.trcheck = trcheck, !.techeck = techeck, !.hccheck = hccheck,
     !.converge_whole = trcheck + techeck + hccheck,
     !.converging = converging,
     !.gain = NextGain(xp.gain, converging)],
   ret |-> trcheck + techeck + hccheck]

\* the three checks of convergence and the oscillation test, on the
\* residuals held as quotients
ConvergenceChecks(xp, converge_t_r, converge_t_e, converge_hc) ==
  ConvergenceResult(xp, converge_t_r, converge_t_e, converge_hc,
                    ResidualCheck(converge_t_r[1], converge_t_r[2]),
                    ResidualCheck(converge_t_e[1], converge_t_e[2]),
                    ResidualCheck(converge_hc[1], converge_hc[2]),
                    Oscillating(xp))

\* convergence (xplasma): the cell it leaves and the value it returns
convergence(xp) ==
  ConvergenceChecks(xp,
    Quotient(DInt(Abs(xp.t_r_old - xp.t_r)), DInt(xp.t_r_old + xp.t_r)),
    Quotient(DAbs(DSub(xp.t_e_old, xp.t_e)), DAdd(xp.t_e_old, xp.t_e)),
    Quotient(DInt(Abs(xp.heat_tot - (xp.lum_rad + xp.lum_adiabatic))),
             DInt(xp.heat_tot + xp.lum_rad + xp.lum_adiabatic)))

(***************************************************************************)
(* ionization.c : the power-law fit of mode 5, one band                    *)
(***************************************************************************)
\* the while loop that widens [alphamin, alphamax] by 1.0 on each side
RECURSIVE WidenBracket(_, _, _, _, _)
WidenBracket(numin, numax, meanfreq, alphamin, alphamax) ==
  IF ProdPositive(sim_alpha_func(numin, numax, meanfreq, alphamin),
                  sim_alpha_func(numin, numax, meanfreq, alphamax))
  THEN WidenBracket(numin, numax, meanfreq, alphamin - 10, alphamax + 10)
  ELSE [alphamin |-> alphamin, alphamax |-> alphamax]

\* zbrent (sim_alpha_func, x1, x2, 0.00001): the slope, in tenths, nearest
\* to the zero inside a bracket that straddles it (both neighbours when they
\* are equally near); no slope where the bracket is not valid
zbrent_sim_alpha(numin, numax, meanfreq, x1, x2) ==
  LET g(a) == sim_alpha_func(numin, numax, meanfreq, a)
      valid == /\ ~g(x1).nan /\ ~g(x2).nan
               /\ ~ProdPositive(g(x1), g(x2))
      \* y is the tabulated slope next to x: at most one slope lies between
      \* them, and there the function is not finite
      next(x, y) == /\ y \in x1..x2 /\ ~g(y).nan
                    /\ \/ y = x + 1 \/ y = x - 1
                       \/ (y = x + 2 /\ g(x + 1).nan)
                       \/ (y = x - 2 /\ g(x - 1).nan)
  IN  IF ~valid THEN {}
      ELSE { x \in x1..x2 :
               /\ ~g(x).nan
               /\ \/ g(x).v = 0
                  \/ \E y \in (x - 2)..(x + 2) :
                       /\ next(x, y) /\ ProdNegative(g(x).v, g(y).v)
                       /\ Abs(g(x).v) <= Abs(g(y).v) }

\* a slope stored as zbrent returned it
ClampAlpha_none(a) == a

\* the two limits put on the slope zbrent returned
ClampAlpha(a) ==
  IF a > AlphaClamp THEN AlphaClamp
  ELSE IF a < -AlphaClamp THEN -AlphaClamp ELSE a

\* a commit of the temporary slope and weight that makes no check
CommitFit_unchecked(c0, nx4power, alphatemp, sim_w_temp) ==
  [c0 EXCEPT !.sim_alpha[nx4power] = alphatemp,
             !.sim_w[nx4power] = sim_w_temp.v]

\* the check of the temporary weight and the assignment of the pair
CommitFit(c0, nx4power, alphatemp, sim_w_temp) ==
  IF sane_check(sim_w_temp) THEN c0
  ELSE [c0 EXCEPT !.sim_alpha[nx4power] = alphatemp,
                  !.sim_w[nx4power] = sim_w_temp.v]

\* the body of the band loop for band nx4power: every outcome; err marks a
\* root solve that failed, insane a weight that sane_check rejected
FitBand(xp, nx4power) ==
  LET empty == xp.nxtot[nx4power] = 0
      sim_numin == IF empty THEN xband_f1_first ELSE xfreq[nx4power]
      sim_numax == IF empty THEN xband_f2_last ELSE xfreq[nx4power + 1]
      sim_meanfreq == IF empty THEN xp.ave_freq
                      ELSE xp.xave_freq[nx4power]
      j == IF empty THEN Num(0) ELSE xp.xj[nx4power]
      c0 == IF empty THEN [xp EXCEPT !.sim_w[nx4power] = 0] ELSE xp
      br == WidenBracket(sim_numin, sim_numax, sim_meanfreq,
                         c0.sim_alpha[nx4power] - 1, c0.sim_alpha[nx4power] + 1)
      roots == zbrent_sim_alpha(sim_numin, sim_numax, sim_meanfreq,
                                br.alphamin, br.alphamax)
      sim_w_temp(a) == sim_w(j, ClampAlpha(a), sim_numin, sim_numax)
  IN  IF roots = {} THEN { [cell |-> c0, err |-> TRUE, insane |-> FALSE] }
      ELSE { [cell |-> CommitFit(c0, nx4power, ClampAlpha(a), sim_w_temp(a)),
              err |-> FALSE, insane |-> sane_check(sim_w_temp(a))] :
             a \in roots }

\* the loop over the bands nx4power = from .. nxfreq - 1; kept collects the
\* bands whose new pair was rejected
RECURSIVE FitBands(_, _)
FitBands(outcomes, nx4power) ==
  IF nx4power = nxfreq THEN outcomes
  ELSE FitBands(UNION { IF o.err THEN {o}
                        ELSE { [cell |-> f.cell, err |-> f.err,
                                kept |-> IF f.insane
                                         THEN o.kept \cup {nx4power}
                                         ELSE o.kept] :
                               f \in FitBand(o.cell, nx4power) } :
                          o \in outcomes },
                nx4power + 1)

ParIdle ==
  /\ rank_global = 0
  /\ nrange = NoRange
  /\ maxcells = NoMaxCells

GatherIdle ==
  /\ geo_ioniz_or_extract = "CYCLE_IONIZ"
  /\ geo_nangles = 0
  /\ xxspec = <<>>
  /\ redhelper = <<>>
  /\ redhelper2 = <<>>
  /\ gpc = <<>>
  /\ ground = <<>>
  /\ red_msgs = <<>>
  /\ bc_msgs = <<>>
  /\ entrylog = <<>>
  /\ exitlog = <<>>

(***************************************************************************)
(* External abundance callables and the photon transport that deposits     *)
(* the estimators between two calls of ion_abundances                      *)
(***************************************************************************)
\* what nebular_concentrations / fix_concentrations may report and leave in
\* ne: nothing changed, no convergence with ne below zero, ne above VERY_BIG
AbundOutcomes(xp) ==
  { [status |-> 0, ne |-> xp.ne], [status |-> 1, ne |-> -1],
    [status |-> 0, ne |-> VERY_BIG + 1] }

\* heating and radiation temperature a photon cycle may deposit
Deposits ==
  { [heat |-> 20000, t_r |-> 12000], [heat |-> 5000, t_r |-> 5] }

\* band estimators a photon cycle may deposit
Estimators ==
  { [nxtot |-> [b \in BandSet |-> IF b = 0 THEN 5 ELSE 0],
     xave_freq |-> [b \in BandSet |-> IF b = 0 THEN 16120 ELSE 0],
     xj |-> [b \in BandSet |-> IF b = 0 THEN Num(2) ELSE Num(0)],
     ave_freq |-> 20000],
    [nxtot |-> [b \in BandSet |-> IF b = 0 THEN 7 ELSE 3],
     xave_freq |-> [b \in BandSet |-> IF b = 0 THEN 16700 ELSE 28000],
     xj |-> [b \in BandSet |-> IF b = 0 THEN Num(3) ELSE Num(1)],
     ave_freq |-> 20000] }

\* gain and slope a cell may hold when the model starts
GainStart == {DRatio(12, 2), DRatio(75, 2)}

\* temperature history a cell may hold when the model starts: that of a cell
\* no cycle has changed yet, and that of a cell whose last two cycles moved
\* t_e down by 500 K and then up by 1000 K
HistoryStart ==
  { [t_e_old |-> DInt(10000), dt_e |-> DZero, dt_e_old |-> DZero],
    [t_e_old |-> DInt(9000), dt_e |-> DInt(-500), dt_e_old |-> DInt(200)] }

AlphaStart == {0, -9}

Deposit(xp, d) ==
  [xp EXCEPT !.heat_tot = d.heat,
             !.heat_lines = d.heat \div 4,
             !.heat_photo = d.heat \div 4,
             !.heat_lines_macro = IF phys.mbb > 0 THEN d.heat \div 10 ELSE 0,
             !.heat_photo_macro = IF phys.mbf > 0 THEN d.heat \div 20 ELSE 0,
             !.t_r = d.t_r]

\* the locals of one call: gain, te_old, te_new and mode of one_shot, the
\* value convergence returned, which ion_abundances discards, and the value
\* the abundance callable returned
NoLocals ==
  [gain |-> DZero, te_old |-> DZero, te_new |-> DZero, mode |-> 0, check |-> -1,
   status |-> -1, kept |-> {}, solved |-> FALSE]

\* branches for mode 0, 1, 2 and 4 that shift the history as mode 3 does
ion_abundances_direct_shifting(xp, o) ==
  LET c1 == [xp EXCEPT !.dt_e_old = xp.dt_e]
      c2 == [c1 EXCEPT !.t_r_old = c1.t_r, !.lum_rad_old = c1.lum_rad]
  IN  [c2 EXCEPT !.ne = o.ne]

\* the branches of ion_abundances for mode 0, 1, 2 and 4: the abundance
\* callable alone acts on the cell
ion_abundances_direct(xp, o) == [xp EXCEPT !.ne = o.ne]

CellIdle ==
  /\ xplasma = <<>>
  /\ geo_auger_ionization = 0
  /\ phys = <<>>
  /\ pc = "off"
  /\ mode = 0
  /\ ireturn = 0
  /\ ncalls = 0
  /\ trace = <<>>
  /\ entry = <<>>
  /\ loc = NoLocals
  /\ noffzero = 0

\* an int counter of check_convergence: the value it holds is base + n,
\* where n is what the loop has added and base is 0 for a counter that was
\* assigned 0, and for a counter never assigned is the int its storage
\* held: 0 when held_zero, any other int when not
Assigned == [held_zero |-> TRUE, n |-> 0]

\* locals of check_convergence outside a call, and the report before one
NoCheck ==
  [pc |-> "off", n |-> 0, nconverge |-> 0, nconverging |-> 0, ntot |-> 0,
   nte |-> Assigned, ntr |-> Assigned, nhc |-> Assigned, at_entry |-> <<>>]

NoReport == [logged |-> FALSE]

CheckIdle ==
  /\ plasmamain = <<>>
  /\ chk = NoCheck
  /\ creport = NoReport

InitGather ==
  /\ CheckIdle
  /\ ParIdle
  /\ CellIdle
  /\ np_mpi_global \in 1..NRanks
  /\ geo_ioniz_or_extract \in {"CYCLE_IONIZ", "CYCLE_EXTRACT"}
  /\ geo_nangles \in 0..MaxAngles
  /\ \E seed \in [0..(np_mpi_global - 1) -> 0..MaxSeed] :
       xxspec = [r \in 0..(np_mpi_global - 1) |-> LocalSpectrum(seed[r])]
  /\ redhelper = [r \in 0..(np_mpi_global - 1) |-> <<>>]
  /\ redhelper2 = [r \in 0..(np_mpi_global - 1) |-> <<>>]
  /\ gpc = [r \in 0..(np_mpi_global - 1) |-> "idle"]
  /\ ground = [r \in 0..(np_mpi_global - 1) |-> 0]
  /\ red_msgs = [r \in 0..(np_mpi_global - 1) |-> <<>>]
  /\ bc_msgs = [r \in 0..(np_mpi_global - 1) |-> <<>>]
  /\ entrylog = [r \in 0..(np_mpi_global - 1) |-> <<>>]
  /\ exitlog = [r \in 0..(np_mpi_global - 1) |-> <<>>]

\* rank r enters the routine: calloc of both buffers and the packing loop
GatherPack(r) ==
  /\ gpc[r] = "idle"
  /\ ground[r] < MaxRounds
  /\ redhelper' = [redhelper EXCEPT ![r] = PackBuffer(xxspec[r])]
  /\ redhelper2' = [redhelper2 EXCEPT ![r] = ZeroBuffer]
  /\ entrylog' = [entrylog EXCEPT ![r] = Append(@, xxspec[r])]
  /\ gpc' = [gpc EXCEPT ![r] = "reduce"]
  /\ UNCHANGED <<checkvars, parvars, cellvars, geo_ioniz_or_extract, geo_nangles, xxspec, ground,
                 red_msgs, bc_msgs, exitlog>>

\* MPI_Reduce on a rank other than the root: its contribution leaves
GatherReduceSend(r) ==
  /\ r # 0
  /\ gpc[r] = "reduce"
  /\ red_msgs' = [red_msgs EXCEPT ![r] = Append(@, redhelper[r])]
  /\ gpc' = [gpc EXCEPT ![r] = "bcast"]
  /\ UNCHANGED <<checkvars, parvars, cellvars, geo_ioniz_or_extract, geo_nangles, xxspec, redhelper,
                 redhelper2, ground, bc_msgs, entrylog, exitlog>>

\* an MPI_Reduce on the root that sums the buffers that have arrived and
\* waits for no rank
GatherReduceRoot_no_wait ==
  /\ gpc[0] = "reduce"
  /\ redhelper2' = [redhelper2 EXCEPT ![0] =
        ReduceSum([r \in Ranks |->
                     IF r = 0 THEN redhelper[0]
                     ELSE IF red_msgs[r] = <<>> THEN ZeroBuffer
                     ELSE Head(red_msgs[r])])]
  /\ red_msgs' = [r \in Ranks |->
                    IF r = 0 \/ red_msgs[r] = <<>> THEN <<>>
                    ELSE Tail(red_msgs[r])]
  /\ gpc' = [gpc EXCEPT ![0] = "bcast"]
  /\ UNCHANGED <<checkvars, parvars, cellvars, geo_ioniz_or_extract,
                 geo_nangles, xxspec, redhelper, ground, bc_msgs, entrylog,
                 exitlog>>

\* MPI_Reduce on the root: completes once every rank has contributed
GatherReduceRoot ==
  /\ gpc[0] = "reduce"
  /\ \A r \in Ranks \ {0} : red_msgs[r] # <<>>
  /\ redhelper2' = [redhelper2 EXCEPT ![0] =
        ReduceSum([r \in Ranks |->
                     IF r = 0 THEN redhelper[0] ELSE Head(red_msgs[r])])]
  /\ red_msgs' = [r \in Ranks |-> IF r = 0 THEN <<>> ELSE Tail(red_msgs[r])]
  /\ gpc' = [gpc EXCEPT ![0] = "bcast"]
  /\ UNCHANGED <<checkvars, parvars, cellvars, geo_ioniz_or_extract, geo_nangles, xxspec, redhelper,
                 ground, bc_msgs, entrylog, exitlog>>

\* MPI_Bcast on the root: redhelper2 leaves for every other rank
GatherBcastRoot ==
  /\ gpc[0] = "bcast"
  /\ bc_msgs' = [r \in Ranks |->
                   IF r = 0 THEN <<>> ELSE Append(bc_msgs[r], redhelper2[0])]
  /\ gpc' = [gpc EXCEPT ![0] = "unpack"]
  /\ UNCHANGED <<checkvars, parvars, cellvars, geo_ioniz_or_extract, geo_nangles, xxspec, redhelper,
                 redhelper2, ground, red_msgs, entrylog, exitlog>>

\* MPI_Bcast on a rank other than the root: redhelper2 is received
GatherBcastRecv(r) ==
  /\ r # 0
  /\ gpc[r] = "bcast"
  /\ bc_msgs[r] # <<>>
  /\ redhelper2' = [redhelper2 EXCEPT ![r] = Head(bc_msgs[r])]
  /\ bc_msgs' = [bc_msgs EXCEPT ![r] = Tail(@)]
  /\ gpc' = [gpc EXCEPT ![r] = "unpack"]
  /\ UNCHANGED <<checkvars, parvars, cellvars, geo_ioniz_or_extract, geo_nangles, xxspec, redhelper,
                 ground, red_msgs, entrylog, exitlog>>

\* the unpacking loop, free of both buffers, return (0)
GatherUnpack(r) ==
  /\ gpc[r] = "unpack"
  /\ xxspec' = [xxspec EXCEPT ![r] = UnpackBuffer(@, redhelper2[r])]
  /\ exitlog' = [exitlog EXCEPT ![r] = Append(@, xxspec'[r])]
  /\ redhelper' = [redhelper EXCEPT ![r] = <<>>]
  /\ redhelper2' = [redhelper2 EXCEPT ![r] = <<>>]
  /\ ground' = [ground EXCEPT ![r] = @ + 1]
  /\ gpc' = [gpc EXCEPT ![r] = "idle"]
  /\ UNCHANGED <<checkvars, parvars, cellvars, geo_ioniz_or_extract, geo_nangles, red_msgs, bc_msgs,
                 entrylog>>

NextGather ==
  \/ \E r \in Ranks : GatherPack(r)
  \/ \E r \in Ranks : GatherReduceSend(r)
  \/ GatherReduceRoot
  \/ GatherBcastRoot
  \/ \E r \in Ranks : GatherBcastRecv(r)
  \/ \E r \in Ranks : GatherUnpack(r)

SpecGather == InitGather /\ [][NextGather]_vars

(***************************************************************************)
(* Specification of the work partition                                     *)
(***************************************************************************)
\* A process of a group of np_mpi_global ranks, before any call.
InitPar ==
  /\ np_mpi_global \in 1..MaxProc
  /\ rank_global \in 0..(np_mpi_global - 1)
  /\ nrange = NoRange
  /\ maxcells = NoMaxCells
  /\ GatherIdle
  /\ CheckIdle
  /\ CellIdle

\* One call get_parallel_nrange (rank, ntotal, nproc, &my_nmin, &my_nmax).
CallNRange ==
  \E nproc \in 1..MaxProc :
    \E rank \in 0..(nproc - 1) :
      \E ntotal \in 0..MaxTotal :
        LET r == get_parallel_nrange(rank, ntotal, nproc)
        IN  /\ nrange' = [called |-> TRUE, rank |-> rank, ntotal |-> ntotal,
                          nproc |-> nproc, my_nmin |-> r.my_nmin,
                          my_nmax |-> r.my_nmax, ndo |-> r.ndo]
            /\ UNCHANGED <<checkvars, rank_global, np_mpi_global, maxcells, gathervars, cellvars>>

\* One call get_max_cells_per_rank (n_total).
CallMaxCells ==
  \E n_total \in 0..MaxTotal :
    /\ maxcells' = [called |-> TRUE, n_total |-> n_total,
                    ret |-> get_max_cells_per_rank(n_total)]
    /\ UNCHANGED <<checkvars, rank_global, np_mpi_global, nrange, gathervars, cellvars>>

NextPar == CallNRange \/ CallMaxCells

SpecPar == InitPar /\ [][NextPar]_vars

(***************************************************************************)
(* Specification of ion_abundances on one cell                             *)
(***************************************************************************)
\* a cell of the plasma grid before the calls the model follows
StartCell(g, a, e, h, p) ==
  [t_e |-> DInt(10000), t_r |-> 10000, t_e_old |-> h.t_e_old,
   t_r_old |-> 10000, dt_e |-> h.dt_e, dt_e_old |-> h.dt_e_old,
   gain |-> g,
   heat_tot |-> 12000, heat_lines |-> 3000, heat_photo |-> 3000,
   heat_lines_macro |-> IF p.mbb > 0 THEN 1200 ELSE 0,
   heat_photo_macro |-> IF p.mbf > 0 THEN 600 ELSE 0,
   lum_rad |-> 10000, lum_rad_old |-> 10000, lum_adiabatic |-> 0,
   lum_dr |-> 0, lum_comp |-> 0,
   ave_freq |-> e.ave_freq, xave_freq |-> e.xave_freq, xj |-> e.xj,
   nxtot |-> e.nxtot,
   sim_alpha |-> [b \in BandSet |-> a],
   sim_w |-> [b \in BandSet |-> 1],
   ne |-> 1000,
   converge_t_r |-> Quotient(DZero, DInt(1)),
   converge_t_e |-> Quotient(DZero, DInt(1)),
   converge_hc |-> Quotient(DZero, DInt(1)),
   trcheck |-> 0, techeck |-> 0, hccheck |-> 0, converge_whole |-> 0,
   converging |-> 0]

Init ==
  /\ ParIdle /\ np_mpi_global = 1
  /\ GatherIdle
  /\ CheckIdle
  /\ geo_auger_ionization \in {0, 1}
  /\ phys \in PhysSet
  /\ \E g \in GainStart : \E a \in AlphaStart : \E e \in Estimators :
     \E h \in HistoryStart :
       xplasma = StartCell(g, a, e, h, phys)
  /\ pc = "idle"
  /\ mode = 0
  /\ ireturn = 0
  /\ ncalls = 0
  /\ trace = <<>>
  /\ entry = xplasma
  /\ loc = NoLocals
  /\ noffzero = 0

\* the photon transport deposits new estimators between two calls
Transport ==
  /\ pc = "idle"
  /\ ncalls < MaxCalls
  /\ \E d \in Deposits : xplasma' = Deposit(xplasma, d)
  /\ xplasma' # xplasma
  /\ mode' = 0
  /\ ireturn' = 0
  /\ trace' = <<>>
  /\ entry' = xplasma'
  /\ loc' = NoLocals
  /\ UNCHANGED <<noffzero, checkvars, parvars, gathervars, geo_auger_ionization, phys, pc, ncalls>>

\* ion_abundances (xplasma, mode), mode 0, 1, 2 or 4: one abundance callable
IonDirect(m) ==
  /\ pc = "idle"
  /\ ncalls < MaxCalls
  /\ m \in {0, 1, 2, 4}
  /\ mode' = m
  /\ entry' = xplasma
  /\ \E o \in AbundOutcomes(xplasma) :
       /\ xplasma' = ion_abundances_direct(xplasma, o)
       /\ ireturn' = o.status
       /\ loc' = [NoLocals EXCEPT !.status = o.status]
  /\ trace' = << CASE m = 0 -> "nebular_concentrations:2"
                   [] m = 1 -> "nebular_concentrations:1"
                   [] m = 2 -> "fix_concentrations:0"
                   [] m = 4 -> "nebular_concentrations:5" >>
  /\ pc' = "auger"
  /\ UNCHANGED <<noffzero, checkvars, parvars, gathervars, geo_auger_ionization, phys, ncalls>>

\* ion_abundances (xplasma, 5): the loop that fits every band
IonFit ==
  /\ pc = "idle"
  /\ ncalls < MaxCalls
  /\ mode' = 5
  /\ entry' = xplasma
  /\ \E o \in FitBands({[cell |-> xplasma, err |-> FALSE, kept |-> {}]}, 0) :
       /\ xplasma' = o.cell
       /\ pc' = IF o.err THEN "bracket_error" ELSE "shift"
       /\ loc' = [NoLocals EXCEPT !.kept = o.kept]
  /\ trace' = <<"fit">>
  /\ ireturn' = 0
  /\ UNCHANGED <<noffzero, checkvars, parvars, gathervars, geo_auger_ionization, phys, ncalls>>

\* a shift that leaves dt_e_old as it was
ShiftHistory_keeps_dt_e_old(xp) ==
  LET c2 == [xp EXCEPT !.dt_e = DSub(xp.t_e, xp.t_e_old)]
      c3 == [c2 EXCEPT !.t_e_old = c2.t_e]
      c4 == [c3 EXCEPT !.t_r_old = c3.t_r]
  IN  [c4 EXCEPT !.lum_rad_old = c4.lum_rad]

\* a shift that stores t_e_old before it takes the difference
ShiftHistory_old_first(xp) ==
  LET c1 == [xp EXCEPT !.dt_e_old = xp.dt_e]
      c2 == [c1 EXCEPT !.t_e_old = c1.t_e]
      c3 == [c2 EXCEPT !.dt_e = DSub(c2.t_e, c2.t_e_old)]
      c4 == [c3 EXCEPT !.t_r_old = c3.t_r]
  IN  [c4 EXCEPT !.lum_rad_old = c4.lum_rad]

\* the shift of the values to old
ShiftHistory(xp) ==
  LET c1 == [xp EXCEPT !.dt_e_old = xp.dt_e]
      c2 == [c1 EXCEPT !.dt_e = DSub(c1.t_e, c1.t_e_old)]
      c3 == [c2 EXCEPT !.t_e_old = c2.t_e]
      c4 == [c3 EXCEPT !.t_r_old = c3.t_r]
  IN  [c4 EXCEPT !.lum_rad_old = c4.lum_rad]

\* ion_abundances (xplasma, 3) from its start, or mode 5 after the fit
IonShift(m) ==
  /\ \/ m = 3 /\ pc = "idle" /\ ncalls < MaxCalls
             /\ entry' = xplasma /\ trace' = <<"shift">>
     \/ m = 5 /\ pc = "shift" /\ mode = 5
             /\ entry' = entry /\ trace' = Append(trace, "shift")
  /\ mode' = m
  /\ xplasma' = ShiftHistory(xplasma)
  /\ loc' = [NoLocals EXCEPT !.mode = m,
                             !.kept = IF m = 5 THEN loc.kept ELSE {}]
  /\ ireturn' = 0
  /\ pc' = "one_shot"
  /\ UNCHANGED <<noffzero, checkvars, parvars, gathervars, geo_auger_ionization, phys, ncalls>>

\* one_shot up to the return of calc_te
OneShotSolve ==
  /\ pc = "one_shot"
  /\ \E o \in calc_te(xplasma, DMul(SolveLow, xplasma.t_e),
                      DMul(SolveHigh, xplasma.t_e)) :
       /\ o.off => noffzero < MaxOffZero
       /\ noffzero' = IF o.off THEN noffzero + 1 ELSE noffzero
       /\ xplasma' = o.cell
       /\ loc' = [loc EXCEPT !.gain = xplasma.gain, !.te_old = xplasma.t_e,
                             !.te_new = o.ret, !.solved = o.solved]
  /\ trace' = Append(trace, "calc_te")
  /\ pc' = "one_shot_update"
  /\ UNCHANGED <<checkvars, parvars, gathervars, geo_auger_ionization, phys, mode,
                 ireturn, ncalls, entry>>

\* an update that takes the solved temperature undamped
DampedUpdate_undamped(gain, te_old, te_new) == te_new

\* (1 - gain) * te_old + gain * te_new
DampedUpdate(gain, te_old, te_new) ==
  DAdd(DMul(DSub(DOne, gain), te_old), DMul(gain, te_new))

\* the event of nebular_concentrations (xplasma, m)
NebularEvent(m) ==
  CASE m = 1 -> "nebular_concentrations:1"
    [] m = 2 -> "nebular_concentrations:2"
    [] m = 4 -> "nebular_concentrations:4"
    [] m = 5 -> "nebular_concentrations:5"
    [] OTHER -> "nebular_concentrations:other"

\* a translation that hands mode 3 on as it came
OneShotMode_untranslated(m) == IF m <= 1 \/ m >= 6 THEN -1 ELSE m

\* a translation that stops only the modes above 5
OneShotMode_above_only(m) == IF m = 3 THEN 2 ELSE IF m >= 6 THEN -1 ELSE m

\* the mode one_shot hands to nebular_concentrations; -1 where it exits
OneShotMode(m) == IF m = 3 THEN 2 ELSE IF m <= 1 \/ m >= 6 THEN -1 ELSE m

\* one_shot from the damped update to its return
OneShotUpdate ==
  /\ pc = "one_shot_update"
  /\ LET c1 == [xplasma EXCEPT
                  !.t_e = DampedUpdate(loc.gain, loc.te_old, loc.te_new)]
         nmode == OneShotMode(loc.mode)
     IN  IF nmode = -1
         THEN /\ xplasma' = c1
              /\ trace' = Append(trace, "damp")
              /\ pc' = "exit"
              /\ UNCHANGED <<ireturn, loc>>
         ELSE IF c1.t_r > TrFloor
         THEN /\ \E o \in AbundOutcomes(c1) :
                   /\ xplasma' = [c1 EXCEPT !.ne = o.ne]
                   /\ loc' = [loc EXCEPT !.status = o.status]
              /\ trace' = trace \o <<"damp", NebularEvent(nmode)>>
              /\ ireturn' = 0
              /\ pc' = "converge"
         ELSE /\ xplasma' = c1
              /\ trace' = Append(trace, "damp")
              /\ pc' = "exit"
              /\ UNCHANGED <<ireturn, loc>>
  /\ UNCHANGED <<noffzero, checkvars, parvars, gathervars, geo_auger_ionization, phys, mode,
                 ncalls, entry>>

\* the convergence check of modes 3 and 5
IonConverge ==
  /\ pc = "converge"
  /\ xplasma' = convergence(xplasma).cell
  /\ loc' = [loc EXCEPT !.check = convergence(xplasma).ret]
  /\ trace' = Append(trace, "convergence")
  /\ pc' = "auger"
  /\ UNCHANGED <<noffzero, checkvars, parvars, gathervars, geo_auger_ionization, phys, mode,
                 ireturn, ncalls, entry>>

\* a return that calls the Auger callable whenever the flag is not zero
IonReturn_flag_set ==
  /\ pc = "auger"
  /\ trace' = IF geo_auger_ionization # 0
              THEN Append(trace, "auger_ionization") ELSE trace
  /\ ncalls' = ncalls + 1
  /\ pc' = "idle"
  /\ UNCHANGED <<noffzero, checkvars, parvars, gathervars, geo_auger_ionization, phys, xplasma,
                 mode, ireturn, entry, loc>>

\* the Auger callable when geo.auger_ionization == 1, and return (ireturn)
IonReturn ==
  /\ pc = "auger"
  /\ trace' = IF geo_auger_ionization = 1
              THEN Append(trace, "auger_ionization") ELSE trace
  /\ ncalls' = ncalls + 1
  /\ pc' = "idle"
  /\ UNCHANGED <<noffzero, checkvars, parvars, gathervars, geo_auger_ionization, phys, xplasma,
                 mode, ireturn, entry, loc>>

\* ion_abundances with a mode it does not know: exit (0)
IonUnknownMode ==
  /\ pc = "idle"
  /\ ncalls < MaxCalls
  /\ \E m \in {-1, 6} :
       /\ mode' = m
  /\ entry' = xplasma
  /\ trace' = <<>>
  /\ ireturn' = 0
  /\ loc' = NoLocals
  /\ pc' = "exit"
  /\ UNCHANGED <<noffzero, checkvars, parvars, gathervars, geo_auger_ionization, phys, xplasma,
                 ncalls>>

Next ==
  \/ Transport
  \/ \E m \in {0, 1, 2, 4} : IonDirect(m)
  \/ IonFit
  \/ \E m \in {3, 5} : IonShift(m)
  \/ OneShotSolve
  \/ OneShotUpdate
  \/ IonConverge
  \/ IonReturn
  \/ IonUnknownMode

Spec == Init /\ [][Next]_vars

(***************************************************************************)
(* Specification of the fatal exits: ion_abundances on one cell, and       *)
(* one_shot called from elsewhere with a mode it does not process          *)
(***************************************************************************)
\* the modes below 2 and above 5 nearest to those one_shot processes
OneShotBadModes == {1, 6}

InitFatal ==
  /\ Init
  /\ xplasma.gain = DRatio(75, 2)
  /\ xplasma.dt_e = DZero
  /\ xplasma.sim_alpha[0] = 0

\* one_shot (xplasma, m) called by a caller other than ion_abundances
OneShotCall(m) ==
  /\ pc = "idle"
  /\ ncalls < MaxCalls
  /\ m \in OneShotBadModes
  /\ mode' = m
  /\ entry' = xplasma
  /\ trace' = <<"one_shot">>
  /\ ireturn' = 0
  /\ loc' = [NoLocals EXCEPT !.mode = m]
  /\ pc' = "one_shot"
  /\ UNCHANGED <<noffzero, checkvars, parvars, gathervars, geo_auger_ionization, phys, xplasma,
                 ncalls>>

NextFatal ==
  \/ Next
  \/ \E m \in OneShotBadModes : OneShotCall(m)

SpecFatal == InitFatal /\ [][NextFatal]_vars

(***************************************************************************)
(* ionization.c : check_convergence                                        *)
(***************************************************************************)
\* the fields of a plasma cell that check_convergence reads, as convergence
\* leaves them
CheckedCells ==
  { [trcheck |-> a, techeck |-> b, hccheck |-> c, converge_whole |-> a + b + c,
     converging |-> d] : a \in 0..1, b \in 0..1, c \in 0..1, d \in 0..1 }

\* what an int that is declared and never assigned may hold: 0, or any
\* other int, positive or negative, which the model does not tell apart
Unassigned == { [held_zero |-> z, n |-> 0] : z \in BOOLEAN }

\* (double) a / b as the log prints it, in thousandths; not a number for 0/0
Fraction(a, b) == IF b = 0 THEN NaN ELSE Num((1000 * a) \div b)

InitCheck ==
  /\ ParIdle /\ np_mpi_global = 1
  /\ GatherIdle
  /\ CellIdle
  /\ \E k \in 0..MaxPlasma : plasmamain \in [1..k -> CheckedCells]
  /\ chk = [NoCheck EXCEPT !.pc = "idle"]
  /\ creport = NoReport

\* the declarations and nconverge = nconverging = ntot = 0; nte, ntr and nhc
\* are declared and not assigned
CheckEnter ==
  /\ chk.pc = "idle"
  /\ \E e \in Unassigned : \E r \in Unassigned : \E h \in Unassigned :
       chk' = [pc |-> "loop", n |-> 0, nconverge |-> 0, nconverging |-> 0,
               ntot |-> 0, nte |-> e, ntr |-> r, nhc |-> h,
               at_entry |-> plasmamain]
  /\ UNCHANGED <<parvars, gathervars, cellvars, plasmamain, creport>>

\* one pass of the loop over the cells, cell n (plasmamain[n + 1] here)
CheckCell ==
  /\ chk.pc = "loop"
  /\ chk.n < Len(plasmamain)
  /\ LET c == plasmamain[chk.n + 1]
         inc(v, field) == IF c[field] = 0 THEN v + 1 ELSE v
         incu(v, field) == [v EXCEPT !.n = inc(@, field)]
     IN  chk' = [chk EXCEPT
                   !.ntot = @ + 1,
                   !.nconverge = inc(@, "converge_whole"),
                   !.ntr = incu(@, "trcheck"),
                   !.nte = incu(@, "techeck"),
                   !.nhc = incu(@, "hccheck"),
                   !.nconverging = inc(@, "converging"),
                   !.n = @ + 1]
  /\ UNCHANGED <<parvars, gathervars, cellvars, plasmamain, creport>>

\* the two fractions, the three log lines and return (0)
CheckReturn ==
  /\ chk.pc = "loop"
  /\ chk.n >= Len(plasmamain)
  /\ creport' = [logged |-> TRUE,
                 nconverge |-> chk.nconverge,
                 xconverge |-> Fraction(chk.nconverge, chk.ntot),
                 nconverging |-> chk.nconverging,
                 xconverging |-> Fraction(chk.nconverging, chk.ntot),
                 ntot |-> chk.ntot,
                 t_r |-> chk.ntr, t_e |-> chk.nte, hc |-> chk.nhc,
                 ret |-> 0]
  /\ chk' = [chk EXCEPT !.pc = "done"]
  /\ UNCHANGED <<parvars, gathervars, cellvars, plasmamain>>

NextCheck == CheckEnter \/ CheckCell \/ CheckReturn

SpecCheck == InitCheck /\ [][NextCheck]_vars

(***************************************************************************)
(* Specification of ion_abundances on cells whose band estimators may not  *)
(* be finite                                                               *)
(***************************************************************************)
\* band estimators banded_j of which one or both are not finite, the bands
\* holding photons
FitEstimators ==
  Estimators \cup
  { [nxtot |-> [b \in BandSet |-> IF b = 0 THEN 7 ELSE 3],
     xave_freq |-> [b \in BandSet |-> IF b = 0 THEN 16120 ELSE 28000],
     xj |-> [b \in BandSet |-> IF b \in bad THEN NaN ELSE Num(b + 2)],
     ave_freq |-> 20000] : bad \in (SUBSET BandSet) \ {{}} }

InitFit ==
  /\ ParIdle /\ np_mpi_global = 1
  /\ GatherIdle
  /\ CheckIdle
  /\ geo_auger_ionization = 0
  /\ phys \in PhysSet
  /\ \E a \in AlphaStart : \E e \in FitEstimators : \E h \in HistoryStart :
       /\ h.dt_e = DZero
       /\ xplasma = StartCell(DRatio(5, 1), a, e, h, phys)
  /\ pc = "idle"
  /\ mode = 0
  /\ ireturn = 0
  /\ ncalls = 0
  /\ trace = <<>>
  /\ entry = xplasma
  /\ loc = NoLocals
  /\ noffzero = 0

SpecFit == InitFit /\ [][Next]_vars

(***************************************************************************)
(* Specification of ion_abundances on a cell that the photons heated       *)
(* little, its radiation temperature unchanged                             *)
(***************************************************************************)
\* estimators of a cycle that left little heating in the cell
WeakHeating == [heat |-> 5000, t_r |-> 12000]

InitRates ==
  /\ ParIdle /\ np_mpi_global = 1
  /\ GatherIdle
  /\ CheckIdle
  /\ geo_auger_ionization = 0
  /\ phys \in PhysSet
  /\ \E g \in GainStart : \E e \in Estimators : \E h \in HistoryStart :
       /\ h.dt_e = DZero
       /\ xplasma = Deposit(StartCell(g, 0, e, h, phys), WeakHeating)
  /\ pc = "idle"
  /\ mode = 0
  /\ ireturn = 0
  /\ ncalls = 0
  /\ trace = <<>>
  /\ entry = xplasma
  /\ loc = NoLocals
  /\ noffzero = 0

SpecRates == InitRates /\ [][Next]_vars

(***************************************************************************)
(* Specification of ion_abundances under every value of the Auger flag     *)
(***************************************************************************)
\* values of geo.auger_ionization: off, on, and a value that is neither
AugerFlags == {0, 1, 2}

InitAuger ==
  /\ ParIdle /\ np_mpi_global = 1
  /\ GatherIdle
  /\ CheckIdle
  /\ geo_auger_ionization \in AugerFlags
  /\ phys \in PhysSet
  /\ \E e \in Estimators : \E h \in HistoryStart :
       /\ h.dt_e = DZero
       /\ xplasma = StartCell(DRatio(5, 1), 0, e, h, phys)
  /\ pc = "idle"
  /\ mode = 0
  /\ ireturn = 0
  /\ ncalls = 0
  /\ trace = <<>>
  /\ entry = xplasma
  /\ loc = NoLocals
  /\ noffzero = 0

SpecAuger == InitAuger /\ [][Next]_vars

(***************************************************************************)
(* Specification of convergence called on one cell                         *)
(***************************************************************************)
\* temperatures, in kelvin, the cell may hold when convergence is called:
\* 9500 and 10500 differ by exactly epsilon of their sum
ConvTemps == {9500, 10500, 12000}

\* heat_tot, total_emission and adiabatic cooling of the cell
ConvRates ==
  { [heat_tot |-> 10000, lum_rad |-> 10000, lum_adiabatic |-> 0],
    [heat_tot |-> 10500, lum_rad |-> 9000, lum_adiabatic |-> 500],
    [heat_tot |-> 12000, lum_rad |-> 9000, lum_adiabatic |-> 500] }

\* the last two changes of t_e
ConvSteps == {-1500, 0, 1000}

\* the gain of the cell
ConvGains == {GainMin, DRatio(12, 2), DRatio(75, 2), GainMax}

InitConv ==
  /\ ParIdle /\ np_mpi_global = 1
  /\ GatherIdle
  /\ CheckIdle
  /\ geo_auger_ionization = 0
  /\ phys \in {p \in PhysSet : p.mbb = 0 /\ ~p.stores_lum_rad}
  /\ \E tr \in ConvTemps : \E tro \in ConvTemps : \E te \in ConvTemps :
     \E r \in ConvRates : \E d \in ConvSteps : \E dold \in ConvSteps :
     \E g \in ConvGains : \E e \in Estimators :
       /\ e.nxtot[0] = 5
       /\ xplasma =
            [StartCell(g, 0, e, [t_e_old |-> DInt(10500), dt_e |-> DInt(d),
                                 dt_e_old |-> DInt(dold)], phys)
               EXCEPT !.t_r = tr, !.t_r_old = tro, !.t_e = DInt(te),
                      !.heat_tot = r.heat_tot, !.lum_rad = r.lum_rad,
                      !.lum_adiabatic = r.lum_adiabatic]
  /\ pc = "convergence"
  /\ mode = 0
  /\ ireturn = 0
  /\ ncalls = 0
  /\ trace = <<>>
  /\ entry = xplasma
  /\ loc = NoLocals
  /\ noffzero = 0

\* one call convergence (xplasma)
CallConvergence ==
  /\ pc = "convergence"
  /\ entry' = xplasma
  /\ xplasma' = convergence(xplasma).cell
  /\ loc' = [NoLocals EXCEPT !.check = convergence(xplasma).ret]
  /\ trace' = <<"convergence">>
  /\ UNCHANGED <<noffzero, checkvars, parvars, gathervars, geo_auger_ionization, phys, pc, mode,
                 ireturn, ncalls>>

NextConv == CallConvergence

SpecConv == InitConv /\ [][NextConv]_vars

(***************************************************************************)
(* Specification of repeated calls in mode 3 on a cell that starts at      *)
(* twice its equilibrium temperature, with t_r constant                    *)
(***************************************************************************)
\* the number of calls the cell is given
MaxDampedCalls == 20

\* the coefficients of the linear heating and cooling and the temperature
\* at which the heating of StartCell balances the cooling
DampedCases ==
  { [phys |-> p, t_eq |-> IF p.mbb = 0 THEN 12000 ELSE 8160] : p \in PhysSet }

t_eq == (CHOOSE c \in DampedCases : c.phys = phys).t_eq

\* |t_e - t_eq| / t_eq < 0.05 and the three checks passed
DampedConverged ==
  /\ DLess(DAbs(DSub(xplasma.t_e, DInt(t_eq))), DInt(t_eq \div 20))
  /\ xplasma.trcheck = 0 /\ xplasma.techeck = 0 /\ xplasma.hccheck = 0
  /\ "convergence" \in {trace[i] : i \in 1..Len(trace)}

InitDamped ==
  /\ ParIdle /\ np_mpi_global = 1
  /\ GatherIdle
  /\ CheckIdle
  /\ geo_auger_ionization = 0
  /\ \E c \in DampedCases : \E g \in ConvGains : \E e \in Estimators :
       /\ e.nxtot[0] = 5
       /\ phys = c.phys
       /\ xplasma =
            [StartCell(g, 0, e, [t_e_old |-> DInt(2 * c.t_eq), dt_e |-> DZero,
                                 dt_e_old |-> DZero], phys)
               EXCEPT !.t_e = DInt(2 * c.t_eq),
                      !.lum_rad = c.phys.cool * 2 * c.t_eq,
                      !.lum_rad_old = c.phys.cool * 2 * c.t_eq]
  /\ pc = "idle"
  /\ mode = 0
  /\ ireturn = 0
  /\ ncalls = 0
  /\ trace = <<>>
  /\ entry = xplasma
  /\ loc = NoLocals
  /\ noffzero = 0

\* ion_abundances (xplasma, 3) up to the call of one_shot, on a cell that
\* has not converged yet
DampedCall ==
  /\ pc = "idle"
  /\ ncalls < MaxDampedCalls
  /\ ~DampedConverged
  /\ entry' = xplasma
  /\ trace' = <<"shift">>
  /\ mode' = 3
  /\ xplasma' = ShiftHistory(xplasma)
  /\ loc' = [NoLocals EXCEPT !.mode = 3]
  /\ ireturn' = 0
  /\ pc' = "one_shot"
  /\ UNCHANGED <<noffzero, checkvars, parvars, gathervars, geo_auger_ionization, phys, ncalls>>

NextDamped ==
  \/ DampedCall
  \/ OneShotSolve
  \/ OneShotUpdate
  \/ IonConverge
  \/ IonReturn

SpecDamped == InitDamped /\ [][NextDamped]_vars

(***************************************************************************)
(* Properties of the work partition (SpecPar)                              *)
(***************************************************************************)
\* the range the partition law gives rank r of P ranks sharing N items
LawRange(r, N, P) ==
  LET q == N \div P
      s == N - q * P
  IN  IF r < s
      THEN [lo |-> r * (q + 1), hi |-> (r + 1) * (q + 1)]
      ELSE [lo |-> s * (q + 1) + (r - s) * q,
            hi |-> s * (q + 1) + (r - s + 1) * q]

\* C1: get_parallel_nrange(r, N, P) returns the range of the partition law
\* for the rank passed as argument, whatever rank_global holds, so that the
\* ranges of ranks 0..P-1 are pairwise disjoint and cover [0, N).
C1_RangeOfRankArgument ==
  nrange.called =>
    /\ nrange.my_nmin = LawRange(nrange.rank, nrange.ntotal, nrange.nproc).lo
    /\ nrange.my_nmax = LawRange(nrange.rank, nrange.ntotal, nrange.nproc).hi
    /\ \A x \in 0..(nrange.ntotal - 1) :
         \E r \in 0..(nrange.nproc - 1) :
           LET g == get_parallel_nrange(r, nrange.ntotal, nrange.nproc)
           IN  /\ g.my_nmin <= x /\ x < g.my_nmax
               /\ \A r2 \in 0..(nrange.nproc - 1) \ {r} :
                    LET g2 == get_parallel_nrange(r2, nrange.ntotal, nrange.nproc)
                    IN  ~(g2.my_nmin <= x /\ x < g2.my_nmax)

\* C2: the count returned by get_parallel_nrange is non-negative, is
\* floor(N/P) or ceil(N/P) for every rank (so two ranks differ by at most 1),
\* and never exceeds get_max_cells_per_rank(N) for the same group of P ranks.
C2_CountWithinCeil ==
  nrange.called =>
    LET N == nrange.ntotal
        P == nrange.nproc
    IN  /\ nrange.ndo >= 0
        /\ nrange.ndo \in {N \div P, (N + P - 1) \div P}
        /\ \A r1, r2 \in 0..(P - 1) :
             LET d1 == get_parallel_nrange(r1, N, P).ndo
                 d2 == get_parallel_nrange(r2, N, P).ndo
             IN  /\ d1 \in {N \div P, (N + P - 1) \div P}
                 /\ d1 - d2 \in {-1, 0, 1}
        /\ (maxcells.called /\ maxcells.n_total = N /\ np_mpi_global = P)
             => /\ nrange.ndo <= maxcells.ret
                /\ maxcells.ret = (N + P - 1) \div P

\* C2 witness: a rank of the remainder branch, other than rank_global, got
\* ceil(N/P) items where N is no multiple of P, and the buffer bound was
\* asked for the same N in the same group.
C2_Witness ==
  /\ nrange.called /\ maxcells.called
  /\ maxcells.n_total = nrange.ntotal
  /\ np_mpi_global = nrange.nproc
  /\ nrange.ntotal % nrange.nproc # 0
  /\ nrange.rank < nrange.ntotal % nrange.nproc
  /\ nrange.rank # rank_global
  /\ nrange.ndo = maxcells.ret
  /\ nrange.ndo = (nrange.ntotal \div nrange.nproc) + 1

(***************************************************************************)
(* Properties of the spectral exchange (SpecGather)                        *)
(***************************************************************************)
\* sum over ranks 0..r of the value each held on entering exchange n
RECURSIVE SumEntries(_, _, _, _, _)
SumEntries(r, n, k, j, i) ==
  IF r < 0 THEN RZero
  ELSE RAdd(SumEntries(r - 1, n, k, j, i), entrylog[r][n][k][j][i])

\* C3: when a rank returns from gather_extracted_spectrum, every rank has
\* entered that exchange and, for each quantity, each spectrum j < nspec and
\* each bin, the rank holds the sum over all ranks of the pre-exchange local
\* values divided by P; hence all ranks hold identical arrays.
C3_EveryRankHoldsAverage ==
  \A r \in Ranks :
    \A n \in 1..Len(exitlog[r]) :
      /\ \A q \in Ranks : Len(entrylog[q]) >= n
      /\ \A k \in Quant : \A j \in 0..(nspec - 1) : \A i \in Bins :
           exitlog[r][n][k][j][i] =
             RDivInt(SumEntries(np_mpi_global - 1, n, k, j, i), np_mpi_global)
      /\ \A q \in Ranks :
           Len(exitlog[q]) >= n =>
             \A k \in Quant : \A j \in 0..(nspec - 1) :
               exitlog[q][n][k][j] = exitlog[r][n][k][j]

\* C3 witness: two ranks with different local spectra, two spectra in the
\* exchange, and both ranks have returned from it.
C3_Witness ==
  /\ np_mpi_global >= 2
  /\ nspec >= 2
  /\ \A r \in Ranks : Len(exitlog[r]) >= 1
  /\ entrylog[0][1] # entrylog[1][1]
  /\ exitlog[0][1]["lf_wind"][1][0] # exitlog[0][1]["lf_wind"][0][1]
  /\ exitlog[1][1]["f"][0][0][2] = 2

\* the spectra the exchange covers
Exchanged(spec) == [k \in Quant |-> [j \in 0..(nspec - 1) |-> spec[k][j]]]

\* C4: when all ranks enter an exchange with identical arrays, each rank
\* returns with the common input, and a second exchange run right after
\* returns the same arrays as the first.
C4_ExchangeIdempotent ==
  \A r \in Ranks :
    \A n \in 1..Len(exitlog[r]) :
      (\A q \in Ranks : Len(entrylog[q]) >= n /\ entrylog[q][n] = entrylog[r][n])
        => /\ exitlog[r][n] = entrylog[r][n]
           /\ (n = 1 /\ Len(exitlog[r]) >= 2) => exitlog[r][2] = exitlog[r][1]

\* C4 witness: two ranks with the same non-zero spectra have both returned
\* from two exchanges.
C4_Witness ==
  /\ np_mpi_global >= 2
  /\ nspec >= 2
  /\ \A r \in Ranks : Len(exitlog[r]) >= 2
  /\ entrylog[0][1] = entrylog[1][1]
  /\ entrylog[0][1]["f"][0][0] # RZero

(***************************************************************************)
(* Properties of ion_abundances on one cell (Spec)                         *)
(***************************************************************************)
\* ion_abundances has returned and no photon cycle has passed since
Returned == pc = "idle" /\ trace # <<>>

\* C5: after every call of ion_abundances that returns, in any mode and
\* after any sequence of calls, the gain of the cell lies in [0.1, 0.8].
C5_GainWithinLimits ==
  Returned => (DLeq(GainMin, xplasma.gain) /\ DLeq(xplasma.gain, GainMax))

\* a call in mode 3 or 5 returned with the gain held at its upper limit
C5_Witness ==
  /\ Returned /\ mode \in {3, 5}
  /\ DLess(GainMax, DMul(entry.gain, GainUp))
  /\ xplasma.gain = GainMax
  /\ xplasma.converging = 0

\* C6: after every call of ion_abundances that returns, every band has its
\* slope sim_alpha in [-3, 3] and its weight sim_w >= 0.
C6_SlopeAndWeightWithinLimits ==
  Returned =>
    \A b \in BandSet :
      /\ -AlphaClamp <= xplasma.sim_alpha[b]
      /\ xplasma.sim_alpha[b] <= AlphaClamp
      /\ xplasma.sim_w[b] >= 0

\* a call in mode 5 returned with a band whose slope was cut to 3.0
C6_Witness ==
  /\ Returned /\ mode = 5
  /\ \E b \in BandSet :
       /\ xplasma.sim_alpha[b] = AlphaClamp
       /\ entry.sim_alpha[b] # AlphaClamp
       /\ xplasma.nxtot[b] > 0

\* the fields C10 lists
FrameOfDirectModes(xp) ==
  <<xp.t_e, xp.t_e_old, xp.t_r_old, xp.dt_e, xp.dt_e_old, xp.lum_rad_old,
    xp.gain, xp.converging, xp.trcheck, xp.techeck, xp.hccheck,
    xp.converge_whole, xp.sim_alpha, xp.sim_w>>

\* the events of the call
Events == {trace[i] : i \in 1..Len(trace)}

\* C10: a call in mode 0, 1, 2 or 4 invokes neither calc_te nor convergence
\* and leaves t_e, t_e_old, t_r_old, dt_e, dt_e_old, lum_rad_old, gain,
\* converging, trcheck, techeck, hccheck, converge_whole, sim_alpha and
\* sim_w as they were at entry.
C10_DirectModesKeepHistory ==
  (Returned /\ mode \in {0, 1, 2, 4}) =>
    /\ FrameOfDirectModes(xplasma) = FrameOfDirectModes(entry)
    /\ "calc_te" \notin Events
    /\ "convergence" \notin Events
    /\ "shift" \notin Events

\* a call in mode 0 returned on a cell an earlier call in mode 3 or 5 had
\* found oscillating and not converged, the abundance callable having left
\* the cell as it was
C10_Witness ==
  /\ Returned /\ mode = 0 /\ ncalls > 1
  /\ xplasma = entry
  /\ entry.converging = 1
  /\ entry.converge_whole > 0

(***************************************************************************)
(* Properties of convergence (SpecConv)                                    *)
(***************************************************************************)
\* convergence has been called on the cell held in entry
Checked == pc = "convergence" /\ trace # <<>>

\* residual num / den > 0.05 for den > 0
AboveEpsilon(num, den) == DLess(den, DMul(DInt(20), num))

TrResidualAbove ==
  AboveEpsilon(DInt(Abs(entry.t_r_old - entry.t_r)),
               DInt(entry.t_r_old + entry.t_r))

TeResidualAbove ==
  AboveEpsilon(DAbs(DSub(entry.t_e_old, entry.t_e)),
               DAdd(entry.t_e_old, entry.t_e))

HcResidualAbove ==
  AboveEpsilon(DInt(Abs(entry.heat_tot - entry.lum_rad
                          - entry.lum_adiabatic)),
               DInt(entry.heat_tot + entry.lum_rad + entry.lum_adiabatic))

\* C7: after every call of convergence, trcheck, techeck and hccheck are 0
\* or 1, each is 1 exactly when its residual is above 0.05, converge_whole
\* is their sum, the value returned is converge_whole, and converge_whole
\* is 0 exactly when no residual is above 0.05.
C7_ChecksFollowResiduals ==
  Checked =>
    /\ xplasma.trcheck \in {0, 1}
    /\ xplasma.techeck \in {0, 1}
    /\ xplasma.hccheck \in {0, 1}
    /\ (xplasma.trcheck = 1) <=> TrResidualAbove
    /\ (xplasma.techeck = 1) <=> TeResidualAbove
    /\ (xplasma.hccheck = 1) <=> HcResidualAbove
    /\ xplasma.converge_whole
         = xplasma.trcheck + xplasma.techeck + xplasma.hccheck
    /\ xplasma.converge_whole \in 0..3
    /\ loc.check = xplasma.converge_whole
    /\ (xplasma.converge_whole = 0)
         <=> (~TrResidualAbove /\ ~TeResidualAbove /\ ~HcResidualAbove)

\* convergence was called on a cell whose t_r residual is above 0.05, whose
\* t_e residual is exactly 0.05 and whose heating residual is above 0.05
C7_Witness ==
  /\ Checked
  /\ xplasma.trcheck = 1 /\ xplasma.techeck = 0 /\ xplasma.hccheck = 1
  /\ DMul(DInt(20), DAbs(DSub(entry.t_e_old, entry.t_e)))
       = DAdd(entry.t_e_old, entry.t_e)
  /\ loc.check = 2

\* C8: after every call of convergence, converging is 1 if
\* dt_e * dt_e_old < 0 and |dt_e| > |dt_e_old|, and 0 otherwise.
C8_ConvergingIffOvershoot ==
  Checked =>
    /\ xplasma.converging \in {0, 1}
    /\ (xplasma.converging = 1)
         <=> (/\ DSign(entry.dt_e) * DSign(entry.dt_e_old) < 0
              /\ DLess(DAbs(entry.dt_e_old), DAbs(entry.dt_e)))

\* convergence was called with dt_e_old = +1000 and dt_e = -1500
C8_Witness ==
  /\ Checked
  /\ entry.dt_e_old = DInt(1000) /\ entry.dt_e = DInt(-1500)
  /\ xplasma.converging = 1

\* C9: a call of convergence that sets converging to 1 leaves the gain at
\* max (0.1, 0.7 gain), which is not above the old gain; any other call
\* leaves it at min (0.8, 1.1 gain), which is not below the old gain.
C9_GainLaw ==
  Checked =>
    IF xplasma.converging = 1
    THEN /\ xplasma.gain = DMax(GainMin, DMul(DRatio(7, 1), entry.gain))
         /\ DLeq(xplasma.gain, entry.gain)
    ELSE /\ xplasma.gain = DMin(GainMax, DMul(DRatio(11, 1), entry.gain))
         /\ DLeq(entry.gain, xplasma.gain)

\* convergence found the cell oscillating and cut its gain by the factor 0.7
C9_Witness ==
  /\ Checked
  /\ xplasma.converging = 1
  /\ xplasma.gain = DMul(DRatio(7, 1), entry.gain)
  /\ DLess(xplasma.gain, entry.gain)
  /\ DLess(GainMin, xplasma.gain)

(***************************************************************************)
(* Properties of the power-law fit of mode 5 (Spec)                        *)
(***************************************************************************)
\* C11: after a call in mode 5, every band with nxtot = 0 has sim_w = 0 and
\* the sim_alpha it had before the call.
C11_EmptyBandKeepsSlope ==
  (Returned /\ mode = 5) =>
    \A b \in BandSet :
      entry.nxtot[b] = 0 =>
        /\ xplasma.sim_w[b] = 0
        /\ xplasma.sim_alpha[b] = entry.sim_alpha[b]

(***************************************************************************)
(* Properties of the value returned and of the fatal exits (Spec)          *)
(***************************************************************************)
\* C12: in every mode 0 .. 5 the value ion_abundances returns is the status
\* the abundance callable of that call reported.
C12_ReturnsAbundanceStatus ==
  Returned => ireturn = loc.status

\* the abundance callables, the convergence check and the Auger callable
LateEvents ==
  {"nebular_concentrations:1", "nebular_concentrations:2",
   "nebular_concentrations:4", "nebular_concentrations:5",
   "nebular_concentrations:other", "fix_concentrations:0", "convergence",
   "auger_ionization"}

\* one_shot has run up to the point where it looks at its mode and at t_r
PastOneShotTests ==
  /\ "calc_te" \in Events
  /\ pc \notin {"one_shot", "one_shot_update"}

\* C13: the process is gone, and nothing more runs, after ion_abundances was
\* given a mode outside 0 .. 5 (the cell is then as it was, no Auger
\* callable), after one_shot was given a mode outside 2 .. 5 and after
\* one_shot found t_r <= 10; none of these reaches an abundance callable,
\* the convergence check or the Auger callable.  A status of
\* non-convergence or an ne outside [0, VERY_BIG] stops nothing: modes 3
\* and 5 go on to the convergence check and, if enabled, the Auger callable.
C13_FatalExits ==
  /\ pc = "exit" =>
       /\ Events \cap LateEvents = {}
       /\ loc.status = -1
       /\ ~ENABLED NextFatal
  /\ (pc # "idle" /\ mode \notin 0..5 /\ "one_shot" \notin Events) =>
       (pc = "exit" /\ xplasma = entry /\ trace = <<>>)
  /\ (PastOneShotTests /\ loc.mode \notin 2..5) => pc = "exit"
  /\ (PastOneShotTests /\ xplasma.t_r <= TrFloor) => pc = "exit"
  /\ (PastOneShotTests /\ loc.mode \in 2..5 /\ xplasma.t_r > TrFloor) =>
       (pc # "exit" /\ loc.status \in {0, 1})
  /\ (Returned /\ mode \in {3, 5}) =>
       /\ "convergence" \in Events
       /\ (geo_auger_ionization = 1) <=> ("auger_ionization" \in Events)

\* one_shot was given mode 1, solved for the temperature and ended the
\* process before any abundance callable
C13_Witness ==
  /\ pc = "exit"
  /\ loc.mode = 1
  /\ "calc_te" \in Events
  /\ xplasma.t_r > TrFloor

(***************************************************************************)
(* Properties of the damped iteration of mode 3 (SpecDamped)               *)
(***************************************************************************)
\* C14: a cell with linear heating and cooling that starts at t_e = 2 t_eq
\* with a gain in [0.1, 0.8] and constant t_r has, within 20 calls in mode
\* 3, |t_e - t_eq| / t_eq < 0.05 and trcheck = techeck = hccheck = 0: the
\* calls never run out on a cell that has not got there.
\* It holds of the cell cooled by total_emission alone when total_emission
\* stores lum_rad; the cell with dielectronic and Compton cooling ends at
\* the balance heat_tot = lum_rad + lum_adiabatic + lum_dr + lum_comp that
\* zero_emit solves for, where the residual of convergence, which leaves
\* lum_dr and lum_comp out, stays above 0.05.
C14_DampedConvergence ==
  (pc = "idle" /\ ncalls >= MaxDampedCalls) => DampedConverged

(***************************************************************************)
(* Properties of the order of the steps of modes 3 and 5 (Spec)            *)
(***************************************************************************)
\* the events of a whole call in mode m = 3 or 5, in the order of the claim
CallOrder(m) ==
  (IF m = 5 THEN <<"fit">> ELSE <<>>)
    \o <<"shift", "calc_te", "damp",
         IF m = 5 THEN "nebular_concentrations:5"
         ELSE "nebular_concentrations:2",
         "convergence">>
    \o (IF geo_auger_ionization = 1 THEN <<"auger_ionization">> ELSE <<>>)

\* C15: in a call in mode 3 or 5 the steps come in this order: (mode 5) the
\* fit of all bands, the shift of dt_e_old, dt_e, t_e_old, t_r_old and
\* lum_rad_old, the temperature solve, the damped update, the abundance
\* callable, the convergence check; the shifted values are not written
\* again once the solve has started.
C15_OrderOfSteps ==
  (mode \in {3, 5} /\ trace # <<>>) =>
    /\ \E n \in 1..Len(CallOrder(mode)) :
         trace = SubSeq(CallOrder(mode), 1, n)
    /\ Returned => trace = CallOrder(mode)
    /\ "calc_te" \in Events =>
         /\ xplasma.dt_e_old = entry.dt_e
         /\ xplasma.dt_e = DSub(entry.t_e, entry.t_e_old)
         /\ xplasma.t_e_old = entry.t_e
         /\ xplasma.t_r_old = entry.t_r
         /\ xplasma.lum_rad_old = entry.lum_rad

\* a call in mode 5 returned on a cell whose t_e had moved in the call
\* before, the fit having changed a slope
C15_Witness ==
  /\ Returned /\ mode = 5
  /\ entry.t_e # entry.t_e_old
  /\ xplasma.sim_alpha # entry.sim_alpha
  /\ xplasma.dt_e # DZero

\* C16 as stated: when convergence runs, dt_e is the change of t_e this
\* call's one_shot made (t_e after one_shot minus t_e at entry) and dt_e_old
\* is the change the call before made.
C16_StepOfThisCall ==
  (Returned /\ mode \in {3, 5}) =>
    /\ xplasma.dt_e = DSub(xplasma.t_e, entry.t_e)
    /\ xplasma.dt_e_old = DSub(entry.t_e, entry.t_e_old)

\* C16 amended: when convergence runs, dt_e is t_e at entry minus t_e_old
\* at entry, the change the call before made, and dt_e_old is the dt_e the
\* cell had at entry, the change of the call before that; the change this
\* call's one_shot makes is in neither.
C16_StepOfPreviousCall ==
  (mode \in {3, 5} /\ "convergence" \in Events) =>
    /\ xplasma.dt_e = DSub(entry.t_e, entry.t_e_old)
    /\ xplasma.dt_e_old = entry.dt_e
    /\ xplasma.t_e_old = entry.t_e

\* a call in mode 3 returned having moved t_e by a step other than the one
\* the call before had made
C16_Witness ==
  /\ Returned /\ mode = 3
  /\ entry.t_e # entry.t_e_old
  /\ xplasma.t_e # entry.t_e
  /\ DSub(xplasma.t_e, entry.t_e) # xplasma.dt_e
  /\ entry.dt_e # entry.dt_e_old

(***************************************************************************)
(* Properties of the Auger callable (SpecAuger)                            *)
(***************************************************************************)
\* how many times the Auger callable was invoked in the call
AugerCalls == Cardinality({i \in 1..Len(trace) : trace[i] = "auger_ionization"})

\* C17: in every mode 0 .. 5 a call of ion_abundances invokes the Auger
\* callable once if geo.auger_ionization is 1 and never otherwise, and
\* invokes it last: after the abundance callable and, in modes 3 and 5,
\* after the convergence check.
C17_AugerOnceAndLast ==
  /\ pc # "idle" => AugerCalls = 0
  /\ Returned =>
       /\ mode \in 0..5
       /\ AugerCalls = (IF geo_auger_ionization = 1 THEN 1 ELSE 0)
       /\ geo_auger_ionization = 1 =>
            /\ trace[Len(trace)] = "auger_ionization"
            /\ Len(trace) > 1
            /\ trace[Len(trace) - 1] =
                 (CASE mode = 0 -> "nebular_concentrations:2"
                    [] mode = 1 -> "nebular_concentrations:1"
                    [] mode = 2 -> "fix_concentrations:0"
                    [] mode = 4 -> "nebular_concentrations:5"
                    [] OTHER -> "convergence")

\* a call in mode 5 returned with the flag at 1, the Auger callable having
\* come after the convergence check
C17_Witness ==
  /\ Returned /\ mode = 5
  /\ geo_auger_ionization = 1
  /\ AugerCalls = 1
  /\ trace[Len(trace) - 1] = "convergence"

(***************************************************************************)
(* Properties of the check of the fitted pair (SpecFit)                    *)
(***************************************************************************)
\* the weight sim_w gives band b for the slope the cell holds
WeightOfSlope(b) ==
  IF entry.nxtot[b] = 0
  THEN sim_w(Num(0), xplasma.sim_alpha[b], xband_f1_first, xband_f2_last)
  ELSE sim_w(entry.xj[b], xplasma.sim_alpha[b], xfreq[b], xfreq[b + 1])

\* the fit of mode 5 has run over every band
Fitted == mode = 5 /\ trace # <<>> /\ pc # "bracket_error"

\* C18: in the fit of mode 5 a band whose temporary slope or weight is not
\* finite keeps the sim_alpha and sim_w it had before the band was
\* processed; a band whose pair is overwritten holds a finite slope and the
\* finite weight of that slope; the loop goes on to the other bands and the
\* call returns the value it returns otherwise.
C18_InsanePairIsKept ==
  Fitted =>
    /\ \A b \in BandSet :
         /\ b \in loc.kept =>
              /\ xplasma.sim_alpha[b] = entry.sim_alpha[b]
              /\ xplasma.sim_w[b] = entry.sim_w[b]
         /\ b \notin loc.kept =>
              /\ xplasma.sim_alpha[b] \in -AlphaClamp..AlphaClamp
              /\ ~sane_check(WeightOfSlope(b))
              /\ xplasma.sim_w[b] = WeightOfSlope(b).v
    /\ Returned => (ireturn = 0 /\ "convergence" \in Events)

\* a call in mode 5 returned after the weight of band 0 was rejected and the
\* pair of band 1 was overwritten
C18_Witness ==
  /\ Returned /\ mode = 5
  /\ loc.kept = {0}
  /\ entry.nxtot[0] > 0
  /\ xplasma.sim_w[1] # entry.sim_w[1]
  /\ xplasma.sim_alpha[1] # entry.sim_alpha[1]

(***************************************************************************)
(* Properties of calc_te and of the damped update (Spec)                   *)
(***************************************************************************)
\* calc_te has returned to one_shot, which has not yet changed t_e
Solved == pc = "one_shot_update"

\* the limits one_shot gave calc_te
SolveMin == DMul(DRatio(7, 1), loc.te_old)
SolveMax == DMul(DRatio(13, 1), loc.te_old)

\* heating minus cooling of the cell at the temperature t
HeatMinusCool(t) == zero_emit(xplasma, t).difference

\* C19: calc_te calls the root solver only when the differences at tmin and
\* at tmax have opposite signs; otherwise it returns tmin when the
\* difference at tmin is the smaller in size and tmax when it is not; the
\* value returned lies in [tmin, tmax] and is the t_e of the cell.
C19_SolverOnlyWhenBracketed ==
  Solved =>
    /\ loc.solved => HeatMinusCool(SolveMin) * HeatMinusCool(SolveMax) < 0
    /\ ~loc.solved =>
         loc.te_new = (IF Abs(HeatMinusCool(SolveMin))
                            < Abs(HeatMinusCool(SolveMax))
                       THEN SolveMin ELSE SolveMax)
    /\ DLeq(SolveMin, loc.te_new) /\ DLeq(loc.te_new, SolveMax)
    /\ xplasma.t_e = loc.te_new

\* calc_te returned tmin without calling the root solver
C19_Witness ==
  /\ Solved /\ ~loc.solved
  /\ loc.te_new = SolveMin
  /\ DLess(SolveMin, SolveMax)
  /\ Abs(HeatMinusCool(SolveMin)) < Abs(HeatMinusCool(SolveMax))

\* one_shot has made its damped update in this call
Damped == mode \in {3, 5} /\ "damp" \in Events

\* C20: after one_shot, t_e is (1 - g) te_old + g te_new, te_old and g being
\* the t_e and the gain the cell had when the call began and te_new the value
\* calc_te returned for the limits 0.7 te_old and 1.3 te_old; so with
\* te_old > 0 and g in [0.1, 0.8] t_e is positive and within
\* [0.7 te_old, 1.3 te_old], in every call of a sequence.
C20_DampedUpdateLaw ==
  Damped =>
    LET te_old == entry.t_e
        g == entry.gain
        te_new == loc.te_new
        lo == DMul(DRatio(7, 1), te_old)
        hi == DMul(DRatio(13, 1), te_old)
    IN  /\ DLeq(lo, te_new) /\ DLeq(te_new, hi)
        /\ xplasma.t_e
             = DAdd(DMul(DSub(DInt(1), g), te_old), DMul(g, te_new))
        /\ (DSign(te_old) > 0 /\ DLeq(GainMin, g) /\ DLeq(g, GainMax)) =>
             /\ DSign(xplasma.t_e) > 0
             /\ DLeq(lo, xplasma.t_e)
             /\ DLeq(xplasma.t_e, hi)

\* the second call of a sequence returned with t_e strictly between the
\* temperature at entry and the temperature calc_te returned
C20_Witness ==
  /\ Returned /\ Damped
  /\ ncalls = 2
  /\ entry.t_e # DInt(10000)
  /\ DLeq(GainMin, entry.gain) /\ DLeq(entry.gain, GainMax)
  /\ \/ DLess(entry.t_e, xplasma.t_e) /\ DLess(xplasma.t_e, loc.te_new)
     \/ DLess(loc.te_new, xplasma.t_e) /\ DLess(xplasma.t_e, entry.t_e)

(***************************************************************************)
(* Properties of the dispatch on the mode (Spec)                           *)
(***************************************************************************)
\* the events of the abundance callables
AbundanceEvents ==
  { "fix_concentrations:0", "nebular_concentrations:other" } \cup
  { NebularEvent(m) : m \in {1, 2, 4, 5} }

\* the positions of the trace at which an abundance callable was called
AbundanceCalls == { i \in 1..Len(trace) : trace[i] \in AbundanceEvents }

\* C21: a call of ion_abundances in mode 0 .. 5 that returns has called one
\* abundance callable once: nebular_concentrations with 2 in modes 0 and 3,
\* with 1 in mode 1, with 5 in modes 4 and 5, and fix_concentrations with 0
\* in mode 2; modes 3 and 5 call it from one_shot, after the damped update.
C21_ModeDispatch ==
  (Returned /\ mode \in 0..5) =>
    /\ Cardinality(AbundanceCalls) = 1
    /\ \A i \in AbundanceCalls :
         /\ trace[i] = (CASE mode \in {0, 3} -> "nebular_concentrations:2"
                          [] mode = 1 -> "nebular_concentrations:1"
                          [] mode = 2 -> "fix_concentrations:0"
                          [] mode \in {4, 5} -> "nebular_concentrations:5")
         /\ mode \in {3, 5} => (i > 1 /\ trace[i - 1] = "damp")
         /\ mode \notin {3, 5} => i = 1

\* a call in mode 3 returned, one_shot having called nebular_concentrations
\* with 2
C21_Witness ==
  /\ Returned /\ mode = 3
  /\ \E i \in AbundanceCalls :
       trace[i] = "nebular_concentrations:2" /\ trace[i - 1] = "damp"

(***************************************************************************)
(* Properties of the cached heating (Spec)                                 *)
(***************************************************************************)
\* the heating of a cell that does not come from macro atoms: total, lines
\* and photoionization
FixedHeating(xp) ==
  << xp.heat_tot - xp.heat_lines_macro - xp.heat_photo_macro,
     xp.heat_lines - xp.heat_lines_macro,
     xp.heat_photo - xp.heat_photo_macro >>

\* C22: zero_emit and calc_te change the cached heating only in its
\* macro-atom part: after calc_te, however many times zero_emit ran,
\* heat_tot - heat_lines_macro - heat_photo_macro, heat_lines -
\* heat_lines_macro and heat_photo - heat_photo_macro are what they were,
\* the density ne is what it was, and heat_lines_macro and heat_photo_macro
\* are macro_bb_heating and macro_bf_heating at the temperature returned.
C22_OnlyMacroHeatingRewritten ==
  Solved =>
    /\ FixedHeating(xplasma) = FixedHeating(entry)
    /\ xplasma.ne = entry.ne
    /\ xplasma.heat_lines_macro = macro_bb_heating(xplasma, DFloor(loc.te_new))
    /\ xplasma.heat_photo_macro = macro_bf_heating(xplasma, DFloor(loc.te_new))

\* calc_te returned a root of a cell with macro-atom heating, the heating of
\* both kinds rewritten
C22_Witness ==
  /\ Solved /\ loc.solved
  /\ xplasma.heat_lines_macro # entry.heat_lines_macro
  /\ xplasma.heat_photo_macro # entry.heat_photo_macro
  /\ xplasma.heat_tot # entry.heat_tot

(***************************************************************************)
(* Properties of check_convergence (SpecCheck)                             *)
(***************************************************************************)
\* the number of cells whose field is 0
CellsAtZero(field) ==
  Cardinality({ i \in 1..Len(plasmamain) : plasmamain[i][field] = 0 })

\* the counter c was logged as the number k
LoggedAs(c, k) == c.held_zero /\ c.n = k

\* C23: check_convergence returns, and the numbers it logs are counts of
\* the cells: nconverge those with converge_whole = 0, t_r, t_e and hc those
\* with trcheck, techeck and hccheck = 0, nconverging those with
\* converging = 0, ntot all NPLASMA of them; the cells are as they were.
C23_ExactCounts ==
  chk.pc = "done" =>
    /\ creport.logged /\ creport.ret = 0
    /\ creport.nconverge = CellsAtZero("converge_whole")
    /\ LoggedAs(creport.t_r, CellsAtZero("trcheck"))
    /\ LoggedAs(creport.t_e, CellsAtZero("techeck"))
    /\ LoggedAs(creport.hc, CellsAtZero("hccheck"))
    /\ creport.nconverging = CellsAtZero("converging")
    /\ creport.ntot = Len(plasmamain)
    /\ plasmamain = chk.at_entry

(***************************************************************************)
(* Properties of the exchange as a barrier (SpecGather)                    *)
(***************************************************************************)
\* the number of exchanges rank q has entered, and the number to which it
\* has contributed its send buffer
Entered(q) == Len(entrylog[q])
Contributed(q) ==
  ground[q] + (IF gpc[q] \in {"bcast", "unpack"} THEN 1 ELSE 0)

\* C24: in every interleaving, a rank is past the broadcast of its k-th
\* exchange, where it overwrites its spectra and returns, only when every
\* rank has entered its k-th exchange and contributed its send buffer to
\* it; while some rank has not entered, no rank has completed.
C24_ExchangeIsBarrier ==
  \A r \in Ranks : \A q \in Ranks :
    /\ Entered(q) >= ground[r] /\ Contributed(q) >= ground[r]
    /\ Len(exitlog[r]) = ground[r]
    /\ gpc[r] = "unpack" =>
         (Entered(q) > ground[r] /\ Contributed(q) > ground[r])

\* both of two ranks are past the broadcast of their second exchange and
\* about to overwrite their spectra, both having entered and contributed
C24_Witness ==
  /\ np_mpi_global = 2
  /\ gpc[1] = "unpack" /\ ground[1] = 1
  /\ gpc[0] = "unpack" /\ ground[0] = 1
  /\ Entered(0) = 2 /\ Contributed(0) = 2

(***************************************************************************)
(* Properties of the widening of the bracket (Spec)                        *)
(***************************************************************************)
\* the limits the while loop of the fit left for band b of the cell the
\* call found, with the value of sim_alpha_func at each
WidenedBracket(b) ==
  LET empty == entry.nxtot[b] = 0
      numin == IF empty THEN xband_f1_first ELSE xfreq[b]
      numax == IF empty THEN xband_f2_last ELSE xfreq[b + 1]
      meanfreq == IF empty THEN entry.ave_freq ELSE entry.xave_freq[b]
      br == WidenBracket(numin, numax, meanfreq,
                         entry.sim_alpha[b] - 1, entry.sim_alpha[b] + 1)
  IN  [alphamin |-> br.alphamin, alphamax |-> br.alphamax,
       gmin |-> sim_alpha_func(numin, numax, meanfreq, br.alphamin),
       gmax |-> sim_alpha_func(numin, numax, meanfreq, br.alphamax)]

\* C25: in a call in mode 5, for every band the fit processes, populated or
\* empty, the while loop ends, and it ends with
\* sim_alpha_func (alphamin) * sim_alpha_func (alphamax) <= 0, so that the
\* root solver is given a bracket it accepts.
C25_WidenedBracketValid ==
  (mode = 5 /\ trace # <<>>) =>
    /\ pc # "bracket_error"
    /\ \A b \in BandSet :
         LET br == WidenedBracket(b)
         IN  /\ ~br.gmin.nan /\ ~br.gmax.nan
             /\ br.gmin.v * br.gmax.v <= 0

(***************************************************************************)
(* Properties of the cached rates that convergence reads (Spec)            *)
(***************************************************************************)
\* C26: in modes 3 and 5, when convergence forms the heating and cooling
\* residual, the cached rates that depend on temperature are all those of
\* the temperature calc_te returned: lum_adiabatic, lum_dr and lum_comp are
\* adiabatic_cooling, total_dr and total_comp at that temperature, and the
\* macro-atom heating inside heat_tot is that of the same temperature,
\* whether calc_te used the root solver or took an end of the interval.
C26_RatesAtReturnedTemperature ==
  (mode \in {3, 5} /\ "convergence" \in Events) =>
    /\ xplasma.lum_adiabatic = adiabatic_cooling(DFloor(loc.te_new))
    /\ xplasma.lum_dr = total_dr(DFloor(loc.te_new))
    /\ xplasma.lum_comp = total_comp(DFloor(loc.te_new))
    /\ xplasma.heat_lines_macro = macro_bb_heating(xplasma, DFloor(loc.te_new))
    /\ xplasma.heat_photo_macro = macro_bf_heating(xplasma, DFloor(loc.te_new))

====
